---- MODULE Spec2Model ----
(***************************************************************************)
(* Verification model of the training orchestration core of the speech     *)
(* separation repository: the training loops of src/train_cmvn.py,         *)
(* src/train_transnorm.py, src/train_dagan.py and src/train_uns.py, their   *)
(* validation / checkpoint tails, the resume paths of set_model, and the    *)
(* Checkpoint Saver they drive.                                             *)
(***************************************************************************)
EXTENDS Integers, Sequences, FiniteSets, TLC

(***************************************************************************)
(* Bounds of the model.                                                     *)
(***************************************************************************)
MaxSaveNum == 2
MaxValids == 4

(***************************************************************************)
(* Part I.  Checkpoint Saver, driven by the saving tail of valid().         *)
(*                                                                          *)
(* src/saver.py is not part of the sources at hand: SaverUpdate and         *)
(* SaverForceSave follow section 4.2 of the specification.  The callers     *)
(* (construction of the Saver, the names and scores handed to it, the order *)
(* of the calls) are translated from the trainers.                          *)
(***************************************************************************)
VARIABLES
    svariant,    \* which trainer owns the Saver
    save_freq,   \* config['solver'].get('save_freq', -1)
    saver,       \* the Saver object: max_save_num, keep, ckpts (ranked entries)
    disk,        \* save_dir: file name -> stored record
    spc,         \* position inside the saving tail of valid()
    sidx,        \* epoch (or outer step) of the validation being saved
    history,     \* every validation that reached the saving tail: [idx, score, forced]
    resumed_at   \* -1, or the epoch at which a resumed Trainer starts

saverVars == <<svariant, save_freq, saver, disk, spc, sidx, history, resumed_at>>

VARIABLES
    variant,     \* which trainer runs
    cfg,         \* the config mapping read at construction
    resumed,     \* whether this process was constructed with resume configured
    pc,          \* position of the process in exec()
    start,       \* self.start_epoch / self.start_step
    cur,         \* loop variable of exec(): epoch or outer step
    step,        \* self.step of the epoch loops
    valid_time,  \* self.valid_time of the step loops
    pre,         \* loop variable of the discriminator pre-training
    d_att,       \* iterations of train_dis_once done in this outer step
    g_att,       \* iterations of train_gen_once done in this outer step
    sup_att,     \* train_sup_once calls done in this outer step
    G,           \* generator / model parameters
    D,           \* discriminator parameters
    g_opt,       \* optimizer of the model (self.opt / self.g_optim)
    d_opt,       \* self.d_optim
    sched,       \* self.lr_scheduler (ReduceLROnPlateau)
    grad_norm,   \* value returned by the last clip_grad_norm_
    stepped,     \* whether the last update attempt ran optimizer.step()
    nonfinite,   \* non-finite gradient norms met by this process so far
    latest,      \* the record 'latest.pth' holds (or the file solver.resume names)
    snap,        \* the trainer's counters as it left the validation that wrote latest
    prev_ev,     \* the event before ev
    ev,          \* last event of the loop's state machine
    force_files  \* the epochs whose f'{epoch}_force.pth' has been written

loopVars == <<variant, cfg, resumed, pc, start, cur, step, valid_time, pre, d_att, g_att,
              sup_att, G, D, g_opt, d_opt, sched, grad_norm, stepped, nonfinite, latest,
              snap, prev_ev, ev, force_files>>

VARIABLES
    ewho,           \* "tester" for Tester.evaluate, "valid" for a trainer's valid()
    epc,            \* position of the evaluation: accumulating, done, or failed
    total_cnt,      \* total_cnt / cnt
    total_SISNRi,   \* total_SISNRi / total_sisnri
    gender_cnt,     \* gender_cnt[g]
    gender_SISNRi,  \* gender_SISNRi[g] / gender_sisnri[g]
    eresult,        \* the per-gender means reported: g -> [sum, cnt]
    etotal,         \* the overall mean reported: [sum, cnt]
    compute_sdr,    \* self.compute_sdr of the Tester
    sdr0,           \* the mixture-SDR baseline table handed to evaluate
    total_SDR,      \* total_SDR
    gender_SDR,     \* gender_SDR[g]
    eSDRi,          \* total_SDRi and gender_SDRi reported
    eerr,           \* the exception that ended the evaluation, or "none"
    sdr_reads       \* the keys of sdr0 that evaluate subscripted

evalVars == <<ewho, epc, total_cnt, total_SISNRi, gender_cnt, gender_SISNRi, eresult,
              etotal, compute_sdr, sdr0, total_SDR, gender_SDR, eSDRi, eerr, sdr_reads>>

VARIABLES
    p_ref,     \* padded_source of one batch element: K = 2 reference signals
    p_est,     \* estimate_source of the element: K = 2 estimated signals
    p_len,     \* mixture_lengths of the element
    p_op,      \* what was done last: "none", "cal", "swap", "pad"
    p_first,   \* result of cal_loss on the inputs as first given
    p_out      \* result of the last cal_loss call

pitVars == <<p_ref, p_est, p_len, p_op, p_first, p_out>>

VARIABLES
    r_cfg,     \* the RampScheduler: start_step, end_step, start_value, end_value
    r_step,    \* step argument of the last value() call, -1 before the first
    r_val,     \* its result, times (end_step - start_step)
    r_prev     \* argument and result of the call before

rampVars == <<r_cfg, r_step, r_val, r_prev>>

VARIABLES
    k_variant,   \* the trainer being constructed: "cmvn" or "dagan"
    k_dset,      \* config['data'].get('dset', 'wsj0')
    k_keys,      \* the keys the config mapping holds
    k_optim,     \* config['optim']['type'] / config['g_optim']['type']
    k_pc,        \* "new", "ready", "prepassed", "training", "aborted"
    k_abort,     \* how the run ended early: [phase, kind]
    k_read,      \* the keys read so far
    k_made       \* what the run has created on disk

setupVars == <<k_variant, k_dset, k_keys, k_optim, k_pc, k_abort, k_read, k_made>>

VARIABLES
    vl_who,      \* the trainer whose valid() runs
    vl_loader,   \* the validation loader: per batch its PIT loss and its size B
    vl_ntrain,   \* len(self.tr_loader)
    vl_i,        \* batches of the validation loader consumed
    vl_total,    \* total_loss
    vl_cnt,      \* cnt of the epoch loops
    vl_out       \* the validation loss logged and handed on: [sum, cnt]

vlossVars == <<vl_who, vl_loader, vl_ntrain, vl_i, vl_total, vl_cnt, vl_out>>

VARIABLES
    ig_n,        \* number of batches a pass over the loader yields
    ig_pc,       \* the generator: "suspended", at "iter" (for s in loader), at "next"
    ig_started,  \* whether the generator body has been entered
    ig_order,    \* the batches of the current pass in the loader's iteration order
    ig_pos,      \* batches of the current pass already yielded
    ig_last,     \* the batches the last exhausted pass yielded, in order
    ig_ret,      \* the batch the last next() returned, 0 before the first
    ig_calls     \* next() calls that have returned

igenVars == <<ig_n, ig_pc, ig_started, ig_order, ig_pos, ig_last, ig_ret, ig_calls>>

VARIABLES
    cn_list,     \* the training list: per utterance the frames of encoder(audio)
    cn_pc,       \* position of exec(): "mean", "var", "set_mv", "train"
    cn_i,        \* utterances of the current pass done
    cn_mean,     \* the list 'mean' / the global mean m: [num, den]
    cn_var,      \* the list 'var' / the global variance v: [num, den]
    cn_mv,       \* the statistics installed in the model by set_mv
    cn_params,   \* parameters of the model's parts: encoder, separator, decoder
    cn_passes,   \* pre-passes completed by this process
    cn_steps,    \* optimizer steps taken by this process
    cn_resumed   \* whether this process was constructed with resume

cnormVars == <<cn_list, cn_pc, cn_i, cn_mean, cn_var, cn_mv, cn_params, cn_passes, cn_steps,
               cn_resumed>>

VARIABLES
    ds_mode,       \* mode: "tr", "cv" or "tt"
    ds_one_chunk,  \* one_chunk_in_utt
    ds_seg_len,    \* self.seg_len, in samples
    ds_data,       \* self.data: utt_len of the utterance with uid 1, 2, ...
    ds_pc,         \* "new" before __init__ has run, "ready" after
    ds_id_list,    \* self.id_list
    ds_drop_num,   \* drop_num
    ds_sample      \* what the last __getitem__ gave

dsetVars == <<ds_mode, ds_one_chunk, ds_seg_len, ds_data, ds_pc, ds_id_list, ds_drop_num,
              ds_sample>>

vars == <<saverVars, loopVars, evalVars, pitVars, rampVars, setupVars, vlossVars, igenVars, cnormVars, dsetVars>>

\* what the actions of one part leave alone
notSaverVars == <<loopVars, evalVars, pitVars, rampVars, setupVars, vlossVars, igenVars, cnormVars, dsetVars>>
notLoopVars == <<saverVars, evalVars, pitVars, rampVars, setupVars, vlossVars, igenVars, cnormVars, dsetVars>>
notEvalVars == <<saverVars, loopVars, pitVars, rampVars, setupVars, vlossVars, igenVars, cnormVars, dsetVars>>
notPitVars == <<saverVars, loopVars, evalVars, rampVars, setupVars, vlossVars, igenVars, cnormVars, dsetVars>>
notRampVars == <<saverVars, loopVars, evalVars, pitVars, setupVars, vlossVars, igenVars, cnormVars, dsetVars>>
notSetupVars == <<saverVars, loopVars, evalVars, pitVars, rampVars, vlossVars, igenVars, cnormVars, dsetVars>>
notVlossVars == <<saverVars, loopVars, evalVars, pitVars, rampVars, setupVars, igenVars, cnormVars, dsetVars>>
notIgenVars == <<saverVars, loopVars, evalVars, pitVars, rampVars, setupVars, vlossVars, cnormVars, dsetVars>>
notCnormVars == <<saverVars, loopVars, evalVars, pitVars, rampVars, setupVars, vlossVars, igenVars, dsetVars>>
notDsetVars == <<saverVars, loopVars, evalVars, pitVars, rampVars, setupVars, vlossVars, igenVars, cnormVars>>

Variants == {"cmvn", "transnorm", "dagan", "uns"}
EpochVariants == {"cmvn", "transnorm"}
StepVariants == {"dagan", "uns"}

\* Validation scores (SI-SNRi or loss), scaled by 10.
Scores == {3, 5, 7, 9}

\* f'{epoch}.pth' / f'{step}.pth'
ModelName(idx) == ToString(idx) \o ".pth"

ForceNameCollide(idx) == ToString(idx) \o ".pth"
\* f'{epoch}_force.pth'
ForceName(idx) == ToString(idx) \o "_force.pth"

LatestName == "latest.pth"

SaverKeepAllMin(v) == "min"
\* Saver(max_save_num, save_dir, 'max') in the epoch loops, 'min' in the step loops
SaverKeep(v) == IF v \in EpochVariants THEN "max" ELSE "min"

\* Saver.__init__ without resume: an empty ranking
SaverNew(n, keep) == [max_save_num |-> n, keep |-> keep, ckpts |-> <<>>]

\* score a beats score b under the comparison mode
Beats(keep, a, b) == IF keep = "max" THEN a > b ELSE a < b

\* indices of the worst retained entries (several when scores tie)
WorstIdx(sv) ==
    {i \in 1..Len(sv.ckpts) :
        \A j \in 1..Len(sv.ckpts) : ~Beats(sv.keep, sv.ckpts[i].score, sv.ckpts[j].score)}

RemoveAt(s, i) == [k \in 1..(Len(s) - 1) |-> IF k < i THEN s[k] ELSE s[k + 1]]

WriteFile(dk, name, rec) ==
    [n \in (DOMAIN dk) \cup {name} |-> IF n = name THEN rec ELSE dk[n]]

DeleteFile(dk, name) == [n \in (DOMAIN dk) \ {name} |-> dk[n]]

\* Saver.update(model, score, name, info): the possible results [saver, disk].
\* Inserts when fewer than max_save_num are retained or score beats the worst;
\* on overflow the worst entry is evicted and its file deleted.
SaverUpdate(sv, dk, score, name, rec) ==
    IF Len(sv.ckpts) < sv.max_save_num
    THEN {[saver |-> [sv EXCEPT !.ckpts = Append(@, [name |-> name, score |-> score])],
           disk |-> WriteFile(dk, name, rec)]}
    ELSE IF \E i \in WorstIdx(sv) : Beats(sv.keep, score, sv.ckpts[i].score)
    THEN {[saver |-> [sv EXCEPT !.ckpts =
                        Append(RemoveAt(@, i), [name |-> name, score |-> score])],
           disk |-> WriteFile(DeleteFile(dk, sv.ckpts[i].name), name, rec)]
          : i \in WorstIdx(sv)}
    ELSE {[saver |-> sv, disk |-> dk]}

\* Saver.force_save(model, name, info): always writes, touches no ranking
SaverForceSave(dk, name, rec) == WriteFile(dk, name, rec)

\* force_save flag of exec(): save_freq > 0 and (epoch + 1) % save_freq == 0;
\* the step loops never pass it
ForceSaveFlag(v, freq, idx) ==
    v \in EpochVariants /\ freq > 0 /\ (idx + 1) % freq = 0

SaverInit ==
    /\ svariant \in Variants
    /\ save_freq \in {-1, 2}
    /\ \E n \in 1..MaxSaveNum : saver = SaverNew(n, SaverKeep(svariant))
    /\ disk = <<>>
    /\ spc = "update"
    /\ sidx = IF svariant \in EpochVariants THEN 0 ELSE 1
    /\ history = <<>>
    /\ resumed_at = -1

\* valid(): saver.update(model, score, f'{idx}.pth', info_dict)
ValidUpdate ==
    /\ spc = "update"
    /\ Len(history) < MaxValids
    /\ \E score \in Scores :
         \E o \in SaverUpdate(saver, disk, score, ModelName(sidx),
                              [idx |-> sidx, score |-> score]) :
            /\ saver' = o.saver
            /\ disk' = o.disk
            /\ history' = Append(history,
                    [idx |-> sidx, score |-> score,
                     forced |-> ForceSaveFlag(svariant, save_freq, sidx)])
    /\ spc' = IF ForceSaveFlag(svariant, save_freq, sidx) THEN "force" ELSE "latest"
    /\ UNCHANGED <<svariant, save_freq, sidx, resumed_at>>
    /\ UNCHANGED notSaverVars

\* valid(): if force_save: saver.force_save(model, f'{epoch}_force.pth', info_dict)
ValidForceSave ==
    /\ spc = "force"
    /\ disk' = SaverForceSave(disk, ForceName(sidx),
                              [idx |-> sidx, score |-> history[Len(history)].score])
    /\ spc' = "latest"
    /\ UNCHANGED <<svariant, save_freq, saver, sidx, history, resumed_at>>
    /\ UNCHANGED notSaverVars

\* valid(): saver.force_save(model, 'latest.pth', info_dict); the loop then
\* goes on to its next epoch / validation step
ValidLatest ==
    /\ spc = "latest"
    /\ disk' = SaverForceSave(disk, LatestName,
                              [idx |-> sidx, score |-> history[Len(history)].score])
    /\ spc' = "update"
    /\ sidx' = sidx + 1
    /\ UNCHANGED <<svariant, save_freq, saver, history, resumed_at>>
    /\ UNCHANGED notSaverVars

SaverNext == ValidUpdate \/ ValidForceSave \/ ValidLatest

\* the ranked checkpoints of save_dir: the f'{epoch}.pth' files
RankedNames(dk) == {n \in DOMAIN dk : \E i \in 0..(MaxValids + 1) : n = ModelName(i)}

\* resume_score_fn = lambda x: x['valid_score']['valid_sisnri']
ResumeScoreFn(rec) == rec.score

\* the orders in which a directory scan may list a set of names
ScanOrders(S) ==
    {q \in [1..Cardinality(S) -> S] : \A i, j \in 1..Cardinality(S) : i # j => q[i] # q[j]}

SaverResumeEmpty(n, keep, dk) == {SaverNew(n, keep)}
\* Saver(max_save_num, save_dir, keep, resume = True, resume_score_fn = ...):
\* the ranking is rebuilt from the ranked checkpoints on disk, each with the
\* score read from its record; the results for every scan order
SaverResume(n, keep, dk) ==
    {[max_save_num |-> n, keep |-> keep,
      ckpts |-> [k \in 1..Len(q) |-> [name |-> q[k], score |-> ResumeScoreFn(dk[q[k]])]]]
     : q \in ScanOrders(RankedNames(dk))}

\* The process of an epoch loop is interrupted and a Trainer is constructed
\* with solver.resume_exp_name: __init__ builds the Saver with resume = True,
\* set_model() loads 'latest.pth' and sets start_epoch = info_dict['epoch'] + 1;
\* torch.load of a 'latest.pth' that was never written ends the new process.
ResumeTrainer ==
    /\ svariant \in EpochVariants
    /\ resumed_at = -1
    /\ spc # "crashed"
    /\ saver' \in SaverResume(saver.max_save_num, SaverKeep(svariant), disk)
    /\ IF LatestName \in DOMAIN disk
       THEN /\ sidx' = disk[LatestName].idx + 1
            /\ spc' = "update"
       ELSE /\ sidx' = sidx
            /\ spc' = "crashed"
    /\ resumed_at' = sidx'
    /\ UNCHANGED <<svariant, save_freq, disk, history>>
    /\ UNCHANGED notSaverVars

SaverResumeNext == SaverNext \/ ResumeTrainer

(***************************************************************************)
(* Part II.  The training loops: exec(), the update steps, valid() and the  *)
(* resume branch of set_model() of the four trainers.                       *)
(*                                                                          *)
(* Model parameters and optimizer statistics are abstracted to the number   *)
(* of optimizer updates that produced them; the ranking kept by the Saver   *)
(* is developed in Part I, here the saving tail is followed through the     *)
(* 'latest.pth' record it leaves.                                           *)
(***************************************************************************)
MaxEpochs == 2
MaxSteps == 3
MaxIters == 2
MaxValidStep == 2
NumBatches == 2
MaxNonFinite == 1

\* config['optim']['lr'], in units that survive the halvings of the scheduler
LR0 == 1024
\* initial 'best' of ReduceLROnPlateau in mode 'min'
Inf == 99
\* validation losses
VLoss == {1, 2}

GradNorms == {"finite", "nan", "inf"}
NonFinite == {"nan", "inf"}

\* the norms clip_grad_norm_ may return to a process that met n non-finite ones
NormsAfter(n) == IF n < MaxNonFinite THEN GradNorms ELSE {"finite"}

CountNonFinite(n, norm) == IF norm \in NonFinite THEN n + 1 ELSE n

\* math.isnan(grad_norm)
IsNan(norm) == norm = "nan"

\* torch.optim.*(params, lr = lr, ...): a new optimizer has no statistics
NewOptim == [lr |-> LR0, nsteps |-> 0]

\* optimizer.step(): parameters move, statistics advance
OptStep(opt) == [opt EXCEPT !.nsteps = @ + 1]

\* ReduceLROnPlateau(opt, mode = 'min', factor = 0.5, patience = patience)
NewSched == [best |-> Inf, num_bad_epochs |-> 0]

\* lr_scheduler.step(metric): [sched, lr] afterwards
SchedStep(sc, lr, patience, metric) ==
    LET better == metric < sc.best
        bad == IF better THEN 0 ELSE sc.num_bad_epochs + 1
        best == IF better THEN metric ELSE sc.best
    IN IF bad > patience
       THEN [sched |-> [best |-> best, num_bad_epochs |-> 0], lr |-> lr \div 2]
       ELSE [sched |-> [best |-> best, num_bad_epochs |-> bad], lr |-> lr]

NoFile == [present |-> FALSE, keys |-> {}, epoch |-> 0, step |-> 0, state_dict |-> 0,
           D_state_dict |-> 0, optim |-> NewOptim, d_optim |-> NewOptim]

NoSnap == [cur |-> 0, step |-> 0, valid_time |-> 0, G |-> 0, D |-> 0,
           g_opt |-> NewOptim, d_opt |-> NewOptim, sched |-> NewSched]

\* the model state the Saver adds to info_dict when it writes the file
SaverAddedKeys == {"state_dict"}

\* info_dict built by valid() / exec() before the saver calls
InfoDictKeys(v) ==
    CASE v \in EpochVariants -> {"epoch", "valid_score", "config", "optim"}
      [] v = "dagan" -> {"step", "valid_score", "g_optim", "d_optim", "D_state_dict"}
      [] v = "uns" -> {"step", "valid_score", "config", "g_optim", "d_optim", "D_state_dict"}

\* the fields the resume branch of set_model() subscripts
ResumeReadKeys(v, resume_optim) ==
    CASE v \in EpochVariants ->
            {"valid_score", "epoch", "state_dict"}
               \cup (IF resume_optim THEN {"optim"} ELSE {})
      [] v = "dagan" ->
            {"valid_score", "state_dict", "D_state_dict"}
               \cup (IF resume_optim THEN {"g_optim", "d_optim"} ELSE {})
      [] v = "uns" ->
            {"valid_score", "epoch", "state_dict", "D_state_dict"}
               \cup (IF resume_optim THEN {"g_optim", "d_optim"} ELSE {})

EpochConfigs ==
    [start : {0}, total : 1..MaxEpochs, valid_step : {1}, d_iters : {1}, g_iters : {1},
     pretrain_d_step : {0}, adv_loss : {"none"}, use_scheduler : BOOLEAN,
     patience : {0}, resume_optim : {FALSE},
     sup_genders : BOOLEAN, uns_genders : {TRUE}, save_freq : {-1, 2}]

TransnormConfigs ==
    [start : {0}, total : 1..MaxEpochs, valid_step : {1}, d_iters : {1}, g_iters : {1},
     pretrain_d_step : {0}, adv_loss : {"none"}, use_scheduler : BOOLEAN,
     patience : {0}, resume_optim : {FALSE},
     sup_genders : BOOLEAN, uns_genders : BOOLEAN, save_freq : {-1, 2}]

DaganConfigs ==
    [start : 0..1, total : 1..MaxSteps, valid_step : 1..MaxValidStep,
     d_iters : 1..MaxIters, g_iters : 1..MaxIters,
     pretrain_d_step : 0..1, adv_loss : {"gan", "wgan-gp"}, use_scheduler : BOOLEAN,
     patience : {0}, resume_optim : {FALSE},
     sup_genders : {TRUE}, uns_genders : {TRUE}, save_freq : {-1}]

UnsConfigs ==
    [start : 0..1, total : 1..MaxSteps, valid_step : 1..MaxValidStep,
     d_iters : 1..MaxIters, g_iters : 1..MaxIters,
     pretrain_d_step : {0}, adv_loss : {"hinge"}, use_scheduler : {FALSE},
     patience : {0}, resume_optim : {FALSE},
     sup_genders : {TRUE}, uns_genders : {TRUE}, save_freq : {-1}, Lc_lambda : {0, 1}]

ConfigsOf(v) ==
    CASE v = "cmvn" -> EpochConfigs
      [] v = "transnorm" -> TransnormConfigs
      [] v = "dagan" -> DaganConfigs
      [] v = "uns" -> UnsConfigs

\* where exec() starts for each trainer
FirstPc(v, c) ==
    CASE v = "cmvn" -> "prepass"
      [] v = "dagan" -> IF c.pretrain_d_step > 0 THEN "pretrain" ELSE "loop"
      [] OTHER -> "loop"

Emit(e) == prev_ev' = ev /\ ev' = e

\* Trainer.__init__ without resume
LoopInit ==
    /\ variant \in Variants
    /\ cfg \in ConfigsOf(variant)
    /\ resumed = FALSE
    /\ pc = FirstPc(variant, cfg)
    /\ start = cfg.start
    /\ cur = cfg.start
    /\ step = 0
    /\ valid_time = 0
    /\ pre = 0
    /\ d_att = 0
    /\ g_att = 0
    /\ sup_att = 0
    /\ G = 0
    /\ D = 0
    /\ g_opt = NewOptim
    /\ d_opt = NewOptim
    /\ sched = NewSched
    /\ grad_norm = "none"
    /\ stepped = FALSE
    /\ nonfinite = 0
    /\ latest = NoFile
    /\ snap = NoSnap
    /\ prev_ev = "none"
    /\ ev = "INIT"
    /\ force_files = {}

ShouldValidateAtZero(s, vs) == s % vs = 0
\* step % self.valid_step == 0 and step != 0
ShouldValidate(s, vs) == s % vs = 0 /\ s # 0

AfterSaveAlwaysTgt(v) == "valid_tgt"
\* what exec() runs after the saving valid(): train_transnorm validates the
\* unsupervised set with no_save, train_cmvn has no other dataset in self.dsets
AfterSave(v) == IF v = "transnorm" THEN "valid_tgt" ELSE "loop"

DisItersFromG(c) == c.g_iters
\* range(self.d_iters) of train_dis_once
DisIters(c) == c.d_iters

\* range(self.g_iters) of train_gen_once
GenIters(c) == c.g_iters

\* the counters a later resume is compared with
SnapOf(c, st, vt, g, d, gopt, dopt, sc) ==
    [cur |-> c, step |-> st, valid_time |-> vt, G |-> g, D |-> d,
     g_opt |-> gopt, d_opt |-> dopt, sched |-> sc]

\* train_cmvn.comp_norm_stat(): the feature-statistics pre-pass
CompNormStat ==
    /\ pc = "prepass"
    /\ pc' = "loop"
    /\ Emit("PREPASS")
    /\ UNCHANGED <<variant, cfg, resumed, start, cur, step, valid_time, pre, d_att, g_att,
                   sup_att, G, D, g_opt, d_opt, sched, grad_norm, stepped, nonfinite, latest, snap>>
    /\ UNCHANGED force_files
    /\ UNCHANGED notLoopVars

\* train_one_epoch(): one optimizer step per batch; the norm returned by
\* clip_grad_norm_ is discarded and opt.step() always runs
TrainOneEpoch ==
    /\ variant \in EpochVariants
    /\ pc = "loop"
    /\ cur < cfg.total
    /\ G' = G + NumBatches
    /\ g_opt' = [g_opt EXCEPT !.nsteps = @ + NumBatches]
    /\ step' = step + NumBatches
    /\ pc' = "valid"
    /\ Emit("TRAIN_STEP")
    /\ UNCHANGED <<variant, cfg, resumed, start, cur, valid_time, pre, d_att, g_att, sup_att,
                   D, d_opt, sched, grad_norm, stepped, nonfinite, latest, snap>>
    /\ UNCHANGED force_files
    /\ UNCHANGED notLoopVars

\* train_dagan.train_sup_once(): zero_grad, backward, clip, g_optim.step()
TrainSupOnce ==
    /\ variant = "dagan"
    /\ pc = "loop"
    /\ cur < cfg.total
    /\ \E norm \in NormsAfter(nonfinite) :
         grad_norm' = norm /\ nonfinite' = CountNonFinite(nonfinite, norm)
    /\ stepped' = TRUE
    /\ G' = G + 1
    /\ g_opt' = OptStep(g_opt)
    /\ sup_att' = 1
    /\ d_att' = 0
    /\ g_att' = 0
    /\ pc' = "dis"
    /\ Emit("TRAIN_STEP")
    /\ UNCHANGED <<variant, cfg, resumed, start, cur, step, valid_time, pre, D, d_opt, sched,
                   latest, snap>>
    /\ UNCHANGED force_files
    /\ UNCHANGED notLoopVars

DisAttemptStepsG ==
    /\ \/ pc \in {"dis", "pretrain"}
       \/ variant = "uns" /\ pc = "loop" /\ cur < cfg.total
    /\ LET opening == pc = "loop"
           first == pc = "pretrain" /\ d_att = 0
           done == IF opening THEN 1 ELSE d_att + 1
           last == done >= DisIters(cfg)
       IN /\ \E norm \in NormsAfter(nonfinite) :
               /\ grad_norm' = norm
               /\ nonfinite' = CountNonFinite(nonfinite, norm)
               /\ IF IsNan(norm)
                  THEN stepped' = FALSE /\ UNCHANGED <<D, d_opt>>
                  ELSE stepped' = TRUE /\ D' = D + 1 /\ d_opt' = OptStep(d_opt)
          /\ IF pc = "pretrain"
             THEN /\ d_att' = IF last THEN 0 ELSE done
                  /\ pre' = IF last THEN pre + 1 ELSE pre
                  /\ pc' = IF last /\ pre + 1 >= cfg.pretrain_d_step THEN "loop" ELSE "pretrain"
             ELSE /\ d_att' = done
                  /\ pre' = pre
                  /\ pc' = IF last THEN "gen" ELSE "dis"
          /\ g_att' = IF opening THEN 0 ELSE g_att
          /\ IF opening THEN Emit("TRAIN_STEP")
             ELSE IF first THEN Emit("PRETRAIN_D")
             ELSE UNCHANGED <<prev_ev, ev>>
    /\ UNCHANGED <<variant, cfg, resumed, start, cur, step, valid_time, sup_att,
                   sched, latest, snap>>
    /\ G' = G + 1
    /\ g_opt' = OptStep(g_opt)
    /\ UNCHANGED force_files
    /\ UNCHANGED notLoopVars
\* one iteration of train_dis_once(): the discriminator update attempt; in
\* train_uns the first iteration opens the outer step, in train_dagan the
\* function also serves the pre-training loop of exec()
DisAttempt ==
    /\ \/ pc \in {"dis", "pretrain"}
       \/ variant = "uns" /\ pc = "loop" /\ cur < cfg.total
    /\ LET opening == pc = "loop"
           first == pc = "pretrain" /\ d_att = 0
           done == IF opening THEN 1 ELSE d_att + 1
           last == done >= DisIters(cfg)
       IN /\ \E norm \in NormsAfter(nonfinite) :
               /\ grad_norm' = norm
               /\ nonfinite' = CountNonFinite(nonfinite, norm)
               /\ IF IsNan(norm)
                  THEN stepped' = FALSE /\ UNCHANGED <<D, d_opt>>
                  ELSE stepped' = TRUE /\ D' = D + 1 /\ d_opt' = OptStep(d_opt)
          /\ IF pc = "pretrain"
             THEN /\ d_att' = IF last THEN 0 ELSE done
                  /\ pre' = IF last THEN pre + 1 ELSE pre
                  /\ pc' = IF last /\ pre + 1 >= cfg.pretrain_d_step THEN "loop" ELSE "pretrain"
             ELSE /\ d_att' = done
                  /\ pre' = pre
                  /\ pc' = IF last THEN "gen" ELSE "dis"
          /\ g_att' = IF opening THEN 0 ELSE g_att
          /\ IF opening THEN Emit("TRAIN_STEP")
             ELSE IF first THEN Emit("PRETRAIN_D")
             ELSE UNCHANGED <<prev_ev, ev>>
    /\ UNCHANGED <<variant, cfg, resumed, start, cur, step, valid_time, sup_att, G, g_opt,
                   sched, latest, snap>>
    /\ UNCHANGED force_files
    /\ UNCHANGED notLoopVars

\* train_uns.train_gen_once: 'Lc = 0.' stays a Python float unless
\* 'if self.Lc_lambda > 0' replaces it by a tensor, and 'total_Lc += Lc.item()'
\* raises AttributeError on a float
LcItemFails(v, c) == v = "uns" /\ ~(c.Lc_lambda > 0)

\* one iteration of train_gen_once(): the generator update attempt, then the
\* logged totals; after the last one exec() decides whether this outer step
\* is validated
GenAttempt ==
    /\ pc = "gen"
    /\ LET done == g_att + 1
           last == done >= GenIters(cfg)
       IN /\ \E norm \in NormsAfter(nonfinite) :
               /\ grad_norm' = norm
               /\ nonfinite' = CountNonFinite(nonfinite, norm)
               /\ IF IsNan(norm)
                  THEN stepped' = FALSE /\ UNCHANGED <<G, g_opt>>
                  ELSE stepped' = TRUE /\ G' = G + 1 /\ g_opt' = OptStep(g_opt)
          /\ g_att' = IF LcItemFails(variant, cfg) THEN g_att ELSE done
          /\ IF LcItemFails(variant, cfg) THEN pc' = "gen_error" /\ cur' = cur
             ELSE IF ~last THEN pc' = "gen" /\ cur' = cur
             ELSE IF ShouldValidate(cur, cfg.valid_step) THEN pc' = "valid" /\ cur' = cur
             ELSE pc' = "loop" /\ cur' = cur + 1
    /\ UNCHANGED <<variant, cfg, resumed, start, step, valid_time, pre, d_att, sup_att, D,
                   d_opt, sched, latest, snap, prev_ev, ev>>
    /\ UNCHANGED force_files
    /\ UNCHANGED notLoopVars

\* the metric pass of valid() over the training-domain validation set; the
\* per-gender means of the epoch loops divide by gender_cnt[g], and
\* train_dagan.valid divides domain_acc by a cnt that 'wgan-gp' never counts
ValidPass ==
    /\ pc = "valid"
    /\ Emit("VALIDATE")
    /\ pc' = CASE variant \in EpochVariants ->
                     IF cfg.sup_genders THEN "save" ELSE "crashed"
               [] variant = "dagan" ->
                     IF cfg.adv_loss = "wgan-gp" THEN "crashed" ELSE "valid_tgt"
               [] variant = "uns" -> "save"
    /\ UNCHANGED <<variant, cfg, resumed, start, cur, step, valid_time, pre, d_att, g_att,
                   sup_att, G, D, g_opt, d_opt, sched, grad_norm, stepped, nonfinite, latest, snap>>
    /\ UNCHANGED force_files
    /\ UNCHANGED notLoopVars

ValidTgtStepsSched ==
    /\ pc = "valid_tgt"
    /\ Emit("VALIDATE_TGT")
    /\ sched' = [sched EXCEPT !.num_bad_epochs = @ + 1]
    /\ IF variant = "dagan"
       THEN pc' = "save" /\ cur' = cur
       ELSE IF cfg.uns_genders THEN pc' = "loop" /\ cur' = cur + 1
       ELSE pc' = "crashed" /\ cur' = cur
    /\ UNCHANGED <<variant, cfg, resumed, start, step, valid_time, pre, d_att, g_att,
                   sup_att, G, D, g_opt, d_opt, grad_norm, stepped, nonfinite, latest, snap>>
    /\ UNCHANGED force_files
    /\ UNCHANGED notLoopVars
\* valid() over the other domain's validation set: train_dagan before the
\* saving, train_transnorm after it with no_save = True
ValidTgt ==
    /\ pc = "valid_tgt"
    /\ Emit("VALIDATE_TGT")
    /\ IF variant = "dagan"
       THEN pc' = "save" /\ cur' = cur
       ELSE IF cfg.uns_genders THEN pc' = "loop" /\ cur' = cur + 1
       ELSE pc' = "crashed" /\ cur' = cur
    /\ UNCHANGED <<variant, cfg, resumed, start, step, valid_time, pre, d_att, g_att,
                   sup_att, G, D, g_opt, d_opt, sched, grad_norm, stepped, nonfinite, latest, snap>>
    /\ UNCHANGED force_files
    /\ UNCHANGED notLoopVars

\* the record valid() / exec() hands to the saver, as 'latest.pth' stores it
InfoDict(v, idx, g, d, gopt, dopt) ==
    [present |-> TRUE,
     keys |-> InfoDictKeys(v) \cup SaverAddedKeys,
     epoch |-> IF v \in EpochVariants THEN idx ELSE 0,
     step |-> IF v \in StepVariants THEN idx ELSE 0,
     state_dict |-> g,
     D_state_dict |-> IF v \in StepVariants THEN d ELSE 0,
     optim |-> gopt,
     d_optim |-> IF v \in StepVariants THEN dopt ELSE NewOptim]

\* saving tail of valid() in the epoch loops: info_dict with opt.state_dict(),
\* saver.update, the force saves, and only then lr_scheduler.step(total_loss)
ValidSaveEpoch ==
    /\ variant \in EpochVariants
    /\ pc = "save"
    /\ latest' = InfoDict(variant, cur, G, D, g_opt, d_opt)
    /\ \E loss \in VLoss :
         LET r == SchedStep(sched, g_opt.lr, cfg.patience, loss)
         IN IF cfg.use_scheduler
            THEN sched' = r.sched /\ g_opt' = [g_opt EXCEPT !.lr = r.lr]
            ELSE UNCHANGED <<sched, g_opt>>
    /\ snap' = SnapOf(cur, step, valid_time, G, D, g_opt', d_opt, sched')
    /\ force_files' = IF ForceSaveFlag(variant, cfg.save_freq, cur)
                      THEN force_files \cup {cur} ELSE force_files
    /\ Emit("CHECKPOINT")
    /\ pc' = AfterSave(variant)
    /\ cur' = IF AfterSave(variant) = "loop" THEN cur + 1 ELSE cur
    /\ UNCHANGED <<variant, cfg, resumed, start, step, valid_time, pre, d_att, g_att, sup_att,
                   G, D, d_opt, grad_norm, stepped, nonfinite>>
    /\ UNCHANGED notLoopVars

\* saving part of exec() in train_dagan (lr_scheduler.step first, then
\* info_dict, saver.update, 'latest.pth', valid_time += 1) and of valid() in
\* train_uns (no scheduler)
ValidSaveStep ==
    /\ variant \in StepVariants
    /\ pc = "save"
    /\ \E loss \in VLoss :
         LET r == SchedStep(sched, g_opt.lr, cfg.patience, loss)
         IN IF cfg.use_scheduler
            THEN sched' = r.sched /\ g_opt' = [g_opt EXCEPT !.lr = r.lr]
            ELSE UNCHANGED <<sched, g_opt>>
    /\ latest' = InfoDict(variant, cur, G, D, g_opt', d_opt)
    /\ valid_time' = valid_time + 1
    /\ snap' = SnapOf(cur, step, valid_time', G, D, g_opt', d_opt, sched')
    /\ Emit("CHECKPOINT")
    /\ pc' = "loop"
    /\ cur' = cur + 1
    /\ UNCHANGED <<variant, cfg, resumed, start, step, pre, d_att, g_att, sup_att, G, D,
                   d_opt, grad_norm, stepped, nonfinite>>
    /\ UNCHANGED force_files
    /\ UNCHANGED notLoopVars

\* the for loop of exec() is exhausted
Finish ==
    /\ pc = "loop"
    /\ cur >= cfg.total
    /\ pc' = "done"
    /\ Emit("DONE")
    /\ UNCHANGED <<variant, cfg, resumed, start, cur, step, valid_time, pre, d_att, g_att,
                   sup_att, G, D, g_opt, d_opt, sched, grad_norm, stepped, nonfinite, latest, snap>>
    /\ UNCHANGED force_files
    /\ UNCHANGED notLoopVars

\* The process is interrupted and a new Trainer is constructed with resume
\* configured (solver.resume_exp_name in the epoch loops, solver.resume in the
\* step loops): __init__ and the resume branch of set_model().  torch.load of
\* a file that was never written and a subscript of a key the record lacks
\* both end the new process.
Restart ==
    /\ ~resumed
    /\ pc \notin {"crashed", "done"}
    /\ resumed' = TRUE
    /\ \E b \in BOOLEAN : cfg' = [cfg EXCEPT !.resume_optim = b]
    /\ prev_ev' = "none"
    /\ ev' = "INIT"
    /\ step' = 0
    /\ valid_time' = 0
    /\ pre' = 0
    /\ d_att' = 0
    /\ g_att' = 0
    /\ sup_att' = 0
    /\ grad_norm' = "none"
    /\ stepped' = FALSE
    /\ nonfinite' = 0
    /\ sched' = NewSched
    /\ IF ~latest.present \/ ~(ResumeReadKeys(variant, cfg'.resume_optim) \subseteq latest.keys)
       THEN /\ pc' = "crashed"
            /\ start' = cfg.start
            /\ cur' = cfg.start
            /\ G' = 0
            /\ D' = 0
            /\ g_opt' = NewOptim
            /\ d_opt' = NewOptim
            /\ UNCHANGED latest
       ELSE /\ pc' = FirstPc(variant, cfg)
            /\ start' = IF variant \in EpochVariants THEN latest.epoch + 1 ELSE cfg.start
            /\ cur' = start'
            /\ G' = latest.state_dict
            /\ D' = IF variant \in StepVariants THEN latest.D_state_dict ELSE 0
            /\ g_opt' = IF cfg'.resume_optim THEN latest.optim ELSE NewOptim
            /\ d_opt' = IF cfg'.resume_optim /\ variant \in StepVariants
                        THEN latest.d_optim ELSE NewOptim
            /\ latest' = IF variant \in EpochVariants THEN latest ELSE NoFile
    /\ UNCHANGED <<variant, snap>>
    /\ UNCHANGED force_files
    /\ UNCHANGED notLoopVars

LoopNext ==
    \/ CompNormStat
    \/ TrainOneEpoch
    \/ TrainSupOnce
    \/ DisAttempt
    \/ GenAttempt
    \/ ValidPass
    \/ ValidTgt
    \/ ValidSaveEpoch
    \/ ValidSaveStep
    \/ Finish
    \/ Restart

(***************************************************************************)
(* Part III.  Metric aggregation of Tester.evaluate and of valid() in the   *)
(* epoch loops: totals and per-gender sums over the examples of a split,    *)
(* then the means.  SI-SNR improvements are scaled integers.                *)
(***************************************************************************)
MaxExamples == 3

Genders == {"MM", "FF", "MF"}

\* per-example SI-SNR improvement
SISNRiVals == {1, 2}

\* gs = gender_sisnri[g] / gender_cnt[g]: the quotient, kept exact
Mean(sum, cnt) == [sum |-> sum, cnt |-> cnt]

NoResult == [g \in Genders |-> Mean(0, 0)]

\* per-example SDR
SdrVals == {1, 3}

\* the split evaluate is called for, and its keys in the baseline table:
\* sdr0[dset] and sdr0[f'{dset}_{g}']
Split == "cv"
GenderKey(g) == Split \o "_" \o g
SdrKeys == {Split} \cup {GenderKey(g) : g \in Genders}

\* a mixture SDR stored in the table
MixSdr == 1

\* load_mix_sdr(f'./data/{dset}/mix_sdr/', sdr_keys): the entries found
LoadMixSdr(found) == [k \in found |-> MixSdr]

\* an SDR improvement: sum / cnt - base
Improvement(sum, cnt, base) == [sum |-> sum, cnt |-> cnt, base |-> base]

\* total_SDRi = 0 and gender_SDRi[g] = 0. when compute_sdr is off
ZeroSDRi == [total |-> Improvement(0, 1, 0), gender |-> [g \in Genders |-> Improvement(0, 1, 0)]]

\* the order of 'for g in gender_SISNRi' (Tester) and 'for g in genders' (valid)
GenderOrder(who) == IF who = "tester" THEN <<"MM", "FF", "MF">> ELSE <<"MF", "MM", "FF">>

EvalInit ==
    /\ ewho \in {"tester", "valid"}
    /\ epc = IF ewho = "tester" THEN "exec" ELSE "loop"
    /\ total_cnt = 0
    /\ total_SISNRi = 0
    /\ gender_cnt = [g \in Genders |-> 0]
    /\ gender_SISNRi = [g \in Genders |-> 0]
    /\ eresult = NoResult
    /\ etotal = Mean(0, 0)
    /\ compute_sdr \in (IF ewho = "tester" THEN BOOLEAN ELSE {FALSE})
    /\ sdr0 = LoadMixSdr({})
    /\ total_SDR = 0
    /\ gender_SDR = [g \in Genders |-> 0]
    /\ eSDRi = ZeroSDRi
    /\ eerr = "none"
    /\ sdr_reads = {}

\* Tester.exec: sdr0 = load_mix_sdr(...), then evaluate(loader, splt, dset, sdr0)
TesterLoadSdr ==
    /\ ewho = "tester"
    /\ epc = "exec"
    /\ \E found \in SUBSET SdrKeys : sdr0' = LoadMixSdr(found)
    /\ epc' = "loop"
    /\ UNCHANGED <<ewho, total_cnt, total_SISNRi, gender_cnt, gender_SISNRi, eresult, etotal,
                   compute_sdr, total_SDR, gender_SDR, eSDRi, eerr, sdr_reads>>
    /\ UNCHANGED notEvalVars

AddToEvery(table, g, x) == [h \in DOMAIN table |-> table[h] + x]

\* gender_cnt[g] += 1, gender_SISNRi[g] += sisnri: only the entry of g changes
AddTo(table, g, x) == [table EXCEPT ![g] = @ + x]

\* one example of a batch: g = gender_mapper(uid, dset), the sums and counts
EvalExample ==
    /\ epc = "loop"
    /\ total_cnt < MaxExamples
    /\ \E g \in Genders, sisnri \in SISNRiVals :
         /\ gender_cnt' = AddTo(gender_cnt, g, 1)
         /\ gender_SISNRi' = AddTo(gender_SISNRi, g, sisnri)
         /\ total_SISNRi' = total_SISNRi + sisnri
         /\ IF compute_sdr
            THEN \E sdr \in SdrVals :
                    /\ total_SDR' = total_SDR + sdr
                    /\ gender_SDR' = AddTo(gender_SDR, g, sdr)
            ELSE UNCHANGED <<total_SDR, gender_SDR>>
    /\ total_cnt' = total_cnt + 1
    /\ UNCHANGED <<ewho, epc, eresult, etotal, compute_sdr, sdr0, eSDRi, eerr, sdr_reads>>
    /\ UNCHANGED notEvalVars

SubscriptedAlways(flag, keys) == keys

\* 'if self.compute_sdr: ... sdr0[key]': the keys subscripted, none when
\* compute_sdr is off
Subscripted(flag, keys) == IF flag THEN keys ELSE {}

\* the per-gender divisions in program order from position i on: the first
\* exception met and the table keys subscripted
RECURSIVE GenderMeans(_, _, _)
GenderMeans(order, i, reads) ==
    IF i > Len(order) THEN [err |-> "none", reads |-> reads]
    ELSE IF gender_cnt[order[i]] = 0 THEN [err |-> "ZeroDivisionError", reads |-> reads]
    ELSE LET used == Subscripted(compute_sdr, {GenderKey(order[i])})
         IN  IF used \subseteq DOMAIN sdr0
             THEN GenderMeans(order, i + 1, reads \cup used)
             ELSE [err |-> "KeyError", reads |-> reads \cup used]

\* the statements after the loop in program order: the totals divided by
\* total_cnt, total_SDRi, then the per-gender divisions
AfterLoop ==
    IF total_cnt = 0 THEN [err |-> "ZeroDivisionError", reads |-> {}]
    ELSE LET used == Subscripted(compute_sdr, {Split})
         IN  IF used \subseteq DOMAIN sdr0
             THEN GenderMeans(GenderOrder(ewho), 1, used)
             ELSE [err |-> "KeyError", reads |-> used]

\* after the loader is exhausted: total / total_cnt, then for every g in
\* genders the division by gender_cnt[g]; Python raises ZeroDivisionError on a
\* zero count and KeyError on a missing table entry
EvalMeans ==
    /\ epc = "loop"
    /\ eerr' = AfterLoop.err
    /\ sdr_reads' = AfterLoop.reads
    /\ IF AfterLoop.err # "none"
       THEN epc' = "error" /\ UNCHANGED <<eresult, etotal, eSDRi>>
       ELSE /\ epc' = "done"
            /\ eresult' = [g \in Genders |-> Mean(gender_SISNRi[g], gender_cnt[g])]
            /\ etotal' = Mean(total_SISNRi, total_cnt)
            /\ eSDRi' = IF ~compute_sdr
                        THEN ZeroSDRi
                        ELSE [total |-> Improvement(total_SDR, total_cnt, sdr0[Split]),
                              gender |-> [g \in Genders |->
                                  Improvement(gender_SDR[g], gender_cnt[g], sdr0[GenderKey(g)])]]
    /\ UNCHANGED <<ewho, total_cnt, total_SISNRi, gender_cnt, gender_SISNRi, compute_sdr, sdr0,
                   total_SDR, gender_SDR>>
    /\ UNCHANGED notEvalVars

EvalNext == TesterLoadSdr \/ EvalExample \/ EvalMeans

\* no evaluation under way
EvalIdle ==
    /\ ewho = "valid"
    /\ epc = "done"
    /\ total_cnt = 0
    /\ total_SISNRi = 0
    /\ gender_cnt = [g \in Genders |-> 0]
    /\ gender_SISNRi = [g \in Genders |-> 0]
    /\ eresult = NoResult
    /\ etotal = Mean(0, 0)
    /\ compute_sdr = FALSE
    /\ sdr0 = LoadMixSdr({})
    /\ total_SDR = 0
    /\ gender_SDR = [g \in Genders |-> 0]
    /\ eSDRi = ZeroSDRi
    /\ eerr = "none"
    /\ sdr_reads = {}

(***************************************************************************)
(* Part IV.  The permutation-invariant loss engine cal_loss, for one batch  *)
(* element with K = 2 sources.  src/pit_criterion.py is not part of the     *)
(* sources at hand: the engine follows section 4.1 of the specification.    *)
(* SI-SNR is kept as the integer part of the base-2 logarithm of the        *)
(* signal-to-noise ratio.                                                   *)
(***************************************************************************)
S1 == <<1, 0, -1, 0>>
S2 == <<0, 1, 0, -1>>

\* the signals of the batch element, padded to T_max
Signals == {S1, S2, <<1, 1, -1, -1>>, <<2, 1, -2, 0>>, <<0, 0, 0, 0>>}

TMax == Len(S1)

\* values written into padding
PadVals == {-1, 2}

\* the numeric floor added to denominators is 1 / FloorScale
FloorScale == 1024

\* SI-SNR of an estimate without any target component
MinLevel == 0 - 20

SumLenPadded(L) == TMax
\* the positions that enter inner products and energies: those below the
\* element's true length
SumLen(L) == L

RECURSIVE DotTo(_, _, _)
DotTo(a, b, n) == IF n = 0 THEN 0 ELSE DotTo(a, b, n - 1) + a[n] * b[n]

\* masked inner product
Dot(a, b, L) == DotTo(a, b, SumLen(L))

RECURSIVE Log2Up(_, _, _)
Log2Up(num, den, k) == IF 2 * den <= num THEN Log2Up(num, 2 * den, k + 1) ELSE k

RECURSIVE Log2Down(_, _, _)
Log2Down(num, den, k) == IF num < den THEN Log2Down(2 * num, den, k - 1) ELSE k

\* integer part of log2(num / den)
Level(num, den) ==
    IF num = 0 THEN MinLevel
    ELSE IF num >= den THEN Log2Up(num, den, 0) ELSE Log2Down(num, den, 0)

\* SI-SNR of estimate e against reference r: |s_target|^2 / (|e_noise|^2 + floor)
\* with s_target the projection of e on r
PairSnr(e, r, L) ==
    LET d == Dot(e, r, L)
        ee == Dot(e, e, L)
        rr == Dot(r, r, L)
    IN Level(d * d * FloorScale, (ee * rr - d * d) * FloorScale + rr + 1)

PermsIdentityOnly == {<<1, 2>>}
\* the K! assignments: reference k is matched with estimate q[k]
Perms == {<<1, 2>>, <<2, 1>>}

\* total SI-SNR of an assignment
PermSnr(ref, est, L, q) == PairSnr(est[q[1]], ref[1], L) + PairSnr(est[q[2]], ref[2], L)

\* argmax over the assignments, the first one on a tie
BestPerm(ref, est, L) ==
    LET best == {q \in Perms : \A o \in Perms : PermSnr(ref, est, L, q) >= PermSnr(ref, est, L, o)}
    IN IF <<1, 2>> \in best THEN <<1, 2>> ELSE CHOOSE q \in best : TRUE

\* cal_loss(source, estimate_source, source_lengths): loss, max_snr (both times
\* K), the winning assignment and reorder_estimate_source
CalLoss(ref, est, L) ==
    LET q == BestPerm(ref, est, L)
    IN [perm |-> q,
        max_snr |-> PermSnr(ref, est, L, q),
        loss |-> 0 - PermSnr(ref, est, L, q),
        reorder |-> <<est[q[1]], est[q[2]]>>]

NoOut == [perm |-> <<1, 2>>, max_snr |-> 0, loss |-> 0, reorder |-> <<S1, S1>>]

PitInit ==
    /\ p_ref \in Signals \X Signals
    /\ p_est \in Signals \X Signals
    /\ p_len \in 0..TMax
    /\ p_op = "none"
    /\ p_first = NoOut
    /\ p_out = NoOut

\* loss, max_snr, estimate_source, reorder = cal_loss(padded_source, estimate_source, lengths)
PitCalLoss ==
    /\ p_op = "none"
    /\ p_out' = CalLoss(p_ref, p_est, p_len)
    /\ p_first' = p_out'
    /\ p_op' = "cal"
    /\ UNCHANGED <<p_ref, p_est, p_len>>
    /\ UNCHANGED notPitVars

\* the same element with its estimates supplied in the other order
PitCalSwapped ==
    /\ p_op = "cal"
    /\ p_est' = <<p_est[2], p_est[1]>>
    /\ p_out' = CalLoss(p_ref, p_est', p_len)
    /\ p_op' = "swap"
    /\ UNCHANGED <<p_ref, p_len, p_first>>
    /\ UNCHANGED notPitVars

\* x with every position beyond L overwritten by v, or x itself
Repad(x, L, v, change) == IF change THEN [t \in 1..Len(x) |-> IF t > L THEN v ELSE x[t]] ELSE x

\* the same element with other values in the padding of its references and
\* estimates
PitCalRepadded ==
    /\ p_op = "cal"
    /\ p_len < TMax
    /\ \E v \in PadVals, c \in [1..4 -> BOOLEAN] :
         /\ p_ref' = <<Repad(p_ref[1], p_len, v, c[1]), Repad(p_ref[2], p_len, v, c[2])>>
         /\ p_est' = <<Repad(p_est[1], p_len, v, c[3]), Repad(p_est[2], p_len, v, c[4])>>
    /\ p_out' = CalLoss(p_ref', p_est', p_len)
    /\ p_op' = "pad"
    /\ UNCHANGED <<p_len, p_first>>
    /\ UNCHANGED notPitVars

PitNext == PitCalLoss \/ PitCalSwapped \/ PitCalRepadded

\* no loss computation under way
PitIdle ==
    /\ p_ref = <<S1, S2>>
    /\ p_est = <<S1, S2>>
    /\ p_len = 0
    /\ p_op = "done"
    /\ p_first = NoOut
    /\ p_out = NoOut

(***************************************************************************)
(* Part V.  The lambda schedulers of train_dagan.  src/scheduler.py is not  *)
(* part of the sources at hand: RampScheduler.value follows section 4.3 of  *)
(* the specification.  Values are kept times (end_step - start_step), which *)
(* makes the interpolation exact.                                           *)
(***************************************************************************)
MaxRampStep == 4
MaxRampValue == 2

\* sch_config of set_scheduler with function 'ramp'
RampConfigs ==
    {c \in [start_step : 0..MaxRampStep, end_step : 0..MaxRampStep,
            start_value : 0..MaxRampValue, end_value : 0..MaxRampValue] :
        c.start_step < c.end_step}

RampSpan(r) == r.end_step - r.start_step

RampValueUnclamped(r, at) ==
    r.start_value * RampSpan(r) + (r.end_value - r.start_value) * (at - r.start_step)
\* RampScheduler.value(step), times RampSpan
RampValue(r, at) ==
    IF at <= r.start_step THEN r.start_value * RampSpan(r)
    ELSE IF at >= r.end_step THEN r.end_value * RampSpan(r)
    ELSE r.start_value * RampSpan(r) + (r.end_value - r.start_value) * (at - r.start_step)

NoCall == [step |-> -1, val |-> 0]

\* set_scheduler(sch_config): RampScheduler(start_step, end_step, start_value, end_value)
RampInit ==
    /\ r_cfg \in RampConfigs
    /\ r_step = -1
    /\ r_val = 0
    /\ r_prev = NoCall

\* d_lambda = self.Ld_scheduler.value(step) / g_lambda = self.Lg_scheduler.value(step)
RampCall ==
    /\ \E at \in 0..(MaxRampStep + 1) :
         /\ r_step' = at
         /\ r_val' = RampValue(r_cfg, at)
    /\ r_prev' = [step |-> r_step, val |-> r_val]
    /\ UNCHANGED r_cfg
    /\ UNCHANGED notRampVars

RampNext == RampCall

\* no scheduler in use
RampIdle ==
    /\ r_cfg = [start_step |-> 0, end_step |-> 1, start_value |-> 0, end_value |-> 0]
    /\ r_step = -1
    /\ r_val = 0
    /\ r_prev = NoCall

(***************************************************************************)
(* Part VI.  Construction of a Trainer (train_cmvn, train_dagan) from its   *)
(* config mapping, up to the first training step of exec(): which keys are  *)
(* read where, what is created on disk, and how the run can end early.      *)
(***************************************************************************)
SetupVariants == {"cmvn", "dagan"}

\* dataset choices of train_cmvn
Dsets == {"wsj0", "wham"}

\* the config keys followed by the model
ConfigKeys == {"solver.save_dir", "solver.epochs", "data.segment", "data.wsj_root",
               "data.wham_root", "solver.pretrained", "optim.type"}

OptimTypes == {"SGD", "Adam", "ranger", "RMSprop"}

\* d = 'wsj' if dset == 'wsj0' else dset;  config['data'][f'{d}_root']
RootKey(dset) == IF dset = "wsj0" THEN "data.wsj_root" ELSE "data." \o dset \o "_root"

Rd(key) == [op |-> "read", arg |-> key]
Mk(what) == [op |-> "make", arg |-> what]
Opt == [op |-> "optim", arg |-> ""]

\* the root key load_dset / load_wham read: wham data is loaded from wsj_root
LoadRootKey(dset) == IF dset = "wham" THEN "data.wsj_root" ELSE RootKey(dset)

\* Trainer.__init__ in program order: key reads, things created, and the
\* optimizer type test of set_model / set_optim
SetupOps(v, dset) ==
    IF v = "cmvn"
    THEN <<Rd("solver.save_dir"), Mk("save_dir"), Mk("config.yaml"), Mk("log_dir"),
           Mk("dashboard"), Rd("solver.epochs"), Rd("data.segment"),
           Rd(LoadRootKey(dset)), Rd("solver.pretrained"), Rd("optim.type"), Opt>>
    ELSE <<Rd("solver.save_dir"), Mk("save_dir"), Mk("config.yaml"), Mk("log_dir"),
           Mk("dashboard"), Rd("solver.epochs"), Rd("data.segment"),
           Rd("data.wsj_root"), Rd("optim.type"), Opt>>

\* the result of the type test: train_cmvn imports Ranger, train_dagan names
\* an undefined Ranger and model
OptimTest(v, type) ==
    CASE type \in {"SGD", "Adam"} -> "ok"
      [] type = "ranger" -> IF v = "cmvn" THEN "ok" ELSE "NameError"
      [] OTHER -> "exit"

NoAbort == [phase |-> "none", kind |-> "none"]

\* run the operations from position i on: the state when the constructor
\* returns or the process ends
RECURSIVE RunSetup(_, _, _, _, _, _, _)
RunSetup(ops, i, v, keys, type, rd, made) ==
    IF i > Len(ops) THEN [pc |-> "ready", abort |-> NoAbort, read |-> rd, made |-> made]
    ELSE CASE ops[i].op = "read" ->
                 IF ops[i].arg \in keys
                 THEN RunSetup(ops, i + 1, v, keys, type, rd \cup {ops[i].arg}, made)
                 ELSE [pc |-> "aborted", abort |-> [phase |-> "setup", kind |-> "KeyError"],
                       read |-> rd, made |-> made]
           [] ops[i].op = "make" ->
                 RunSetup(ops, i + 1, v, keys, type, rd, made \cup {ops[i].arg})
           [] ops[i].op = "optim" ->
                 IF OptimTest(v, type) = "ok"
                 THEN RunSetup(ops, i + 1, v, keys, type, rd, made)
                 ELSE [pc |-> "aborted",
                       abort |-> [phase |-> "setup", kind |-> OptimTest(v, type)],
                       read |-> rd, made |-> made]

SetupInit ==
    /\ k_variant \in SetupVariants
    /\ k_dset \in (IF k_variant = "cmvn" THEN Dsets ELSE {"wsj0"})
    /\ k_keys \in SUBSET ConfigKeys
    /\ k_optim \in OptimTypes
    /\ k_pc = "new"
    /\ k_abort = NoAbort
    /\ k_read = {}
    /\ k_made = {}

\* Trainer(config): __init__, load_data, set_model
TrainerInit ==
    /\ k_pc = "new"
    /\ LET r == RunSetup(SetupOps(k_variant, k_dset), 1, k_variant, k_keys, k_optim, {}, {})
       IN /\ k_pc' = r.pc
          /\ k_abort' = r.abort
          /\ k_read' = r.read
          /\ k_made' = r.made
    /\ UNCHANGED <<k_variant, k_dset, k_keys, k_optim>>
    /\ UNCHANGED notSetupVars

\* exec() of train_cmvn: comp_norm_stat() reads config['data'][f'{d}_root']
SetupCompNormStat ==
    /\ k_variant = "cmvn"
    /\ k_pc = "ready"
    /\ IF RootKey(k_dset) \in k_keys
       THEN /\ k_pc' = "prepassed"
            /\ k_read' = k_read \cup {RootKey(k_dset)}
            /\ UNCHANGED k_abort
       ELSE /\ k_pc' = "aborted"
            /\ k_abort' = [phase |-> "exec", kind |-> "KeyError"]
            /\ UNCHANGED k_read
    /\ UNCHANGED <<k_variant, k_dset, k_keys, k_optim, k_made>>
    /\ UNCHANGED notSetupVars

\* exec(): the first training epoch / outer step begins
SetupFirstStep ==
    /\ \/ k_variant = "cmvn" /\ k_pc = "prepassed"
       \/ k_variant = "dagan" /\ k_pc = "ready"
    /\ k_pc' = "training"
    /\ UNCHANGED <<k_variant, k_dset, k_keys, k_optim, k_abort, k_read, k_made>>
    /\ UNCHANGED notSetupVars

SetupNext == TrainerInit \/ SetupCompNormStat \/ SetupFirstStep

\* no Trainer under construction
SetupIdle ==
    /\ k_variant = "cmvn"
    /\ k_dset = "wsj0"
    /\ k_keys = {}
    /\ k_optim = "SGD"
    /\ k_pc = "idle"
    /\ k_abort = NoAbort
    /\ k_read = {}
    /\ k_made = {}

(***************************************************************************)
(* Part VII.  The validation loss of valid(): the accumulation over the     *)
(* validation loader and the division that turns it into a mean.           *)
(***************************************************************************)
MaxValBatches == 2
MaxBatchSize == 2
MaxTrainBatches == 3

\* loss.item() of a batch
BatchLosses == {1, 3}

ValLoaders ==
    UNION {[1..n -> [loss : BatchLosses, B : 1..MaxBatchSize]] : n \in 1..MaxValBatches}

\* no mean computed yet
NoLoss == [sum |-> 0, cnt |-> 0]

\* what a batch adds to total_loss: loss.item() * B in the epoch loops,
\* loss.item() in the step loops
LossTerm(v, b) == IF v \in EpochVariants THEN b.loss * b.B ELSE b.loss


\* what total_loss is divided by: cnt (train_cmvn, train_transnorm),
\* len(loader) (train_dagan), len(self.tr_loader) (train_uns)
Divisor(v, loader, ntrain, cnt) ==
    CASE v \in EpochVariants -> cnt
      [] v = "dagan" -> Len(loader)
      [] v = "uns" -> ntrain

VlossInit ==
    /\ vl_who \in Variants
    /\ vl_loader \in ValLoaders
    /\ vl_ntrain \in 1..MaxTrainBatches
    /\ vl_i = 0
    /\ vl_total = 0
    /\ vl_cnt = 0
    /\ vl_out = NoLoss

\* one batch of 'for i, sample in enumerate(loader)'
ValidLossBatch ==
    /\ vl_i < Len(vl_loader)
    /\ vl_out = NoLoss
    /\ vl_i' = vl_i + 1
    /\ vl_total' = vl_total + LossTerm(vl_who, vl_loader[vl_i + 1])
    /\ vl_cnt' = vl_cnt + vl_loader[vl_i + 1].B
    /\ UNCHANGED <<vl_who, vl_loader, vl_ntrain, vl_out>>
    /\ UNCHANGED notVlossVars

\* after the loop: total_loss = total_loss / <divisor>
ValidLossMean ==
    /\ vl_i = Len(vl_loader)
    /\ vl_out = NoLoss
    /\ vl_out' = Mean(vl_total, Divisor(vl_who, vl_loader, vl_ntrain, vl_cnt))
    /\ UNCHANGED <<vl_who, vl_loader, vl_ntrain, vl_i, vl_total, vl_cnt>>
    /\ UNCHANGED notVlossVars

VlossNext == ValidLossBatch \/ ValidLossMean

\* no validation loss under computation
VlossIdle ==
    /\ vl_who = "cmvn"
    /\ vl_loader = <<>>
    /\ vl_ntrain = 1
    /\ vl_i = 0
    /\ vl_total = 0
    /\ vl_cnt = 0
    /\ vl_out = NoLoss

(***************************************************************************)
(* Part VIII.  utils.inf_data_gen(loader): the generator behind the         *)
(* infinite sample providers of the step loops.                            *)
(***************************************************************************)
MaxLoaderLen == 3
MaxNext == 4

\* the batches of a loader of n batches
Batches(n) == 1..n

\* no pass exhausted yet
NoPass == <<0>>

IgenInit ==
    /\ ig_n \in 0..MaxLoaderLen
    /\ ig_pc = "suspended"
    /\ ig_started = FALSE
    /\ ig_order = <<>>
    /\ ig_pos = 0
    /\ ig_last = NoPass
    /\ ig_ret = 0
    /\ ig_calls = 0

\* data_gen.__next__(): the generator is entered at 'while True' the first
\* time and resumed after its 'yield s' afterwards
CallNext ==
    /\ ig_pc = "suspended"
    /\ ig_calls < MaxNext
    /\ ig_pc' = IF ig_started THEN "next" ELSE "iter"
    /\ ig_started' = TRUE
    /\ UNCHANGED <<ig_n, ig_order, ig_pos, ig_last, ig_ret, ig_calls>>
    /\ UNCHANGED notIgenVars

\* 'for s in loader': a fresh pass over the loader, in the order the loader
\* iterates this time (shuffle = True draws a new one)
StartPass ==
    /\ ig_pc = "iter"
    /\ ig_order' \in ScanOrders(Batches(ig_n))
    /\ ig_pos' = 0
    /\ ig_pc' = "next"
    /\ UNCHANGED <<ig_n, ig_started, ig_last, ig_ret, ig_calls>>
    /\ UNCHANGED notIgenVars

\* the pass has a further batch: 'yield s' returns it from next()
YieldBatch ==
    /\ ig_pc = "next"
    /\ ig_pos < Len(ig_order)
    /\ ig_pos' = ig_pos + 1
    /\ ig_ret' = ig_order[ig_pos + 1]
    /\ ig_calls' = ig_calls + 1
    /\ ig_pc' = "suspended"
    /\ UNCHANGED <<ig_n, ig_started, ig_order, ig_last>>
    /\ UNCHANGED notIgenVars

\* the pass is exhausted: the for loop ends and 'while True' starts it again
PassExhausted ==
    /\ ig_pc = "next"
    /\ ig_pos = Len(ig_order)
    /\ ig_last' = ig_order
    /\ ig_pc' = "iter"
    /\ UNCHANGED <<ig_n, ig_started, ig_order, ig_pos, ig_ret, ig_calls>>
    /\ UNCHANGED notIgenVars

IgenNext == CallNext \/ StartPass \/ YieldBatch \/ PassExhausted

\* a resumed generator runs: its body is sequential code
IgenFair == WF_vars(StartPass) /\ WF_vars(YieldBatch) /\ WF_vars(PassExhausted)

\* no generator in use
IgenIdle ==
    /\ ig_n = 0
    /\ ig_pc = "idle"
    /\ ig_started = FALSE
    /\ ig_order = <<>>
    /\ ig_pos = 0
    /\ ig_last = NoPass
    /\ ig_ret = 0
    /\ ig_calls = 0

(***************************************************************************)
(* Part IX.  train_cmvn: the feature-statistics pre-pass comp_norm_stat()   *)
(* at the head of exec(), and the training steps over a model whose         *)
(* encoder and decoder were frozen by set_model().  One feature channel;    *)
(* the statistics are exact quotients [num, den].                           *)
(***************************************************************************)
MaxUtts == 2
MaxFrames == 2
MaxCnSteps == 2

\* values of a frame of encoder(audio)
FrameVals == {0, 1}

Utterances == UNION {[1..n -> FrameVals] : n \in 1..MaxFrames}
TrainLists == UNION {[1..n -> Utterances] : n \in 1..MaxUtts}

Parts == {"encoder", "separator", "decoder"}

TrainablePartsAll == Parts
\* set_model(): freeze_module(self.model.encoder), freeze_module(self.model.decoder)
\* set requires_grad = False, so the optimizer steps the separator only
TrainableParts == Parts \ {"encoder", "decoder"}

Quot(num, den) == [num |-> num, den |-> den]

\* nothing accumulated / nothing installed
NoStat == Quot(0, 0)
NoMV == [mean |-> NoStat, var |-> NoStat]

\* ConvTasNet.set_mv: the statistics the model normalises its features with
set_mv(m, v) == [mean |-> m, var |-> v]

RECURSIVE FrameSum(_, _)
FrameSum(u, n) == IF n = 0 THEN 0 ELSE FrameSum(u, n - 1) + u[n]

\* (m, T) of the mean pass, times its weight: spec.mean(dim = -1) * T
MeanTerm(u) == FrameSum(u, Len(u))

\* (v, T) of the variance pass, times its weight, against the global mean
\* m = mnum / mden: ((spec - m) ** 2).mean(dim = -1) * T, in units of 1 / mden^2
RECURSIVE SqDevSum(_, _, _)
SqDevSum(u, n, m) ==
    IF n = 0 THEN 0
    ELSE SqDevSum(u, n - 1, m) + (m.den * u[n] - m.num) * (m.den * u[n] - m.num)

CnormInit ==
    /\ cn_list \in TrainLists
    /\ cn_pc = "mean"
    /\ cn_i = 0
    /\ cn_mean = NoStat
    /\ cn_var = NoStat
    /\ cn_mv = NoMV
    /\ cn_params = [p \in Parts |-> 0]
    /\ cn_passes = 0
    /\ cn_steps = 0
    /\ cn_resumed = FALSE

\* first loop of comp_norm_stat: mean.append((m, T)); after the last
\* utterance m = (mm * ss).sum / ss.sum()
MeanPassUtt ==
    /\ cn_pc = "mean"
    /\ cn_i < Len(cn_list)
    /\ cn_mean' = Quot(cn_mean.num + MeanTerm(cn_list[cn_i + 1]),
                       cn_mean.den + Len(cn_list[cn_i + 1]))
    /\ IF cn_i + 1 = Len(cn_list)
       THEN cn_pc' = "var" /\ cn_i' = 0
       ELSE cn_pc' = "mean" /\ cn_i' = cn_i + 1
    /\ UNCHANGED <<cn_list, cn_var, cn_mv, cn_params, cn_passes, cn_steps, cn_resumed>>
    /\ UNCHANGED notCnormVars

\* second loop: var.append((v, T)) against the global mean; after the last
\* utterance v = (vv * ss).sum / ss.sum()
VarPassUtt ==
    /\ cn_pc = "var"
    /\ cn_i < Len(cn_list)
    /\ cn_var' = Quot(cn_var.num + SqDevSum(cn_list[cn_i + 1], Len(cn_list[cn_i + 1]), cn_mean),
                      cn_var.den + Len(cn_list[cn_i + 1]) * cn_mean.den * cn_mean.den)
    /\ IF cn_i + 1 = Len(cn_list)
       THEN cn_pc' = "set_mv" /\ cn_i' = 0
       ELSE cn_pc' = "var" /\ cn_i' = cn_i + 1
    /\ UNCHANGED <<cn_list, cn_mean, cn_mv, cn_params, cn_passes, cn_steps, cn_resumed>>
    /\ UNCHANGED notCnormVars

\* self.model.set_mv(m, v); exec() goes on to its epoch loop
SetMV ==
    /\ cn_pc = "set_mv"
    /\ cn_mv' = set_mv(cn_mean, cn_var)
    /\ cn_passes' = cn_passes + 1
    /\ cn_pc' = "train"
    /\ UNCHANGED <<cn_list, cn_i, cn_mean, cn_var, cn_params, cn_steps, cn_resumed>>
    /\ UNCHANGED notCnormVars

\* one batch of train_one_epoch: opt.step() moves the parameters that
\* receive a gradient
CnTrainStep ==
    /\ cn_pc = "train"
    /\ cn_steps < MaxCnSteps
    /\ cn_params' = [p \in Parts |-> IF p \in TrainableParts THEN cn_params[p] + 1
                                    ELSE cn_params[p]]
    /\ cn_steps' = cn_steps + 1
    /\ UNCHANGED <<cn_list, cn_pc, cn_i, cn_mean, cn_var, cn_mv, cn_passes, cn_resumed>>
    /\ UNCHANGED notCnormVars

\* the process is interrupted and a Trainer is constructed with
\* resume_exp_name: a new model, the state of 'latest.pth' loaded into it
\* (any earlier state of this run), and exec() from its first line
CnRestart ==
    /\ ~cn_resumed
    /\ cn_resumed' = TRUE
    /\ cn_pc' = "mean"
    /\ cn_i' = 0
    /\ cn_mean' = NoStat
    /\ cn_var' = NoStat
    /\ cn_mv' \in {NoMV, cn_mv}
    /\ \E k \in 0..cn_params["separator"] :
         cn_params' = [cn_params EXCEPT !["separator"] = k]
    /\ cn_passes' = 0
    /\ cn_steps' = 0
    /\ UNCHANGED cn_list
    /\ UNCHANGED notCnormVars

CnormNext == MeanPassUtt \/ VarPassUtt \/ SetMV \/ CnTrainStep \/ CnRestart

\* no pre-pass under way
CnormIdle ==
    /\ cn_list = <<>>
    /\ cn_pc = "idle"
    /\ cn_i = 0
    /\ cn_mean = NoStat
    /\ cn_var = NoStat
    /\ cn_mv = NoMV
    /\ cn_params = [p \in Parts |-> 0]
    /\ cn_passes = 0
    /\ cn_steps = 0
    /\ cn_resumed = FALSE

(***************************************************************************)
(* Part X.  dataset.wsj0: the constructor's id_list and __getitem__.  An    *)
(* utterance is its length; sample k of a speaker's audio is a non-zero     *)
(* number that names the speaker and the position k.                        *)
(***************************************************************************)
MaxSegLen == 2
MaxUttLen == 4
MaxUttNum == 2

Modes == {"tr", "cv", "tt"}

\* one_chunk_in_utt "must false in cv and tt"
DsetConfigs == {c \in [mode : Modes, one_chunk : BOOLEAN] : c.one_chunk => c.mode = "tr"}

DataSets == UNION {[1..n -> 1..MaxUttLen] : n \in 1..MaxUttNum}

Speakers == <<"mix", "s1", "s2">>
SpkOffset(spk) == CASE spk = "mix" -> 0 [] spk = "s1" -> 100 [] spk = "s2" -> 200

\* sf.read(path): utt_len samples
Audio(spk, utt_len) == [k \in 1..utt_len |-> SpkOffset(spk) + k]

\* min([e, utt_len])
Smaller(a, b) == IF a < b THEN a ELSE b

\* audio[s:e] for 0 <= s
Slice(audio, s, e) == SubSeq(audio, s + 1, Smaller(e, Len(audio)))

\* base = np.zeros(seg_len); base[:ilen] = audio
pad_audio(audio, ilen) == [k \in 1..ds_seg_len |-> IF k <= ilen THEN audio[k] ELSE 0]

SegNumFloor(utt_len, seg_len) == utt_len \div seg_len
\* seg_num = utt_len // seg_len, plus one if utt_len % seg_len > 0
SegNum(utt_len, seg_len) ==
    (utt_len \div seg_len) + (IF utt_len % seg_len > 0 THEN 1 ELSE 0)

\* info = [ uid, f'{uid}_{i}', s, e ] for i in range(seg_num)
ChunkInfo(uid, utt_len, i) ==
    [uid |-> uid, cid |-> <<uid, i>>, s |-> i * ds_seg_len,
     e |-> IF i = SegNum(utt_len, ds_seg_len) - 1
           THEN Smaller((i + 1) * ds_seg_len, utt_len)
           ELSE (i + 1) * ds_seg_len]

Chunks(uid, utt_len) ==
    [j \in 1..SegNum(utt_len, ds_seg_len) |-> ChunkInfo(uid, utt_len, j - 1)]

\* what one utterance appends to id_list
Infos(uid, utt_len) ==
    IF ds_mode = "tr"
    THEN IF utt_len >= ds_seg_len
         THEN IF ds_one_chunk
              THEN <<[uid |-> uid, cid |-> <<uid>>, s |-> -1, e |-> -1]>>
              ELSE Chunks(uid, utt_len)
         ELSE <<>>
    ELSE Chunks(uid, utt_len)

\* what one utterance adds to drop_num
Dropped(utt_len) == IF ds_mode = "tr" /\ ~(utt_len >= ds_seg_len) THEN 1 ELSE 0

RECURSIVE IdList(_, _)
IdList(data, n) == IF n = 0 THEN <<>> ELSE IdList(data, n - 1) \o Infos(n, data[n])

RECURSIVE DropNum(_, _)
DropNum(data, n) == IF n = 0 THEN 0 ELSE DropNum(data, n - 1) + Dropped(data[n])

NoSample == [status |-> "none"]
ValueError == [status |-> "ValueError"]

DsetInit ==
    /\ \E c \in DsetConfigs : ds_mode = c.mode /\ ds_one_chunk = c.one_chunk
    /\ ds_seg_len \in 1..MaxSegLen
    /\ ds_data \in DataSets
    /\ ds_pc = "new"
    /\ ds_id_list = <<>>
    /\ ds_drop_num = 0
    /\ ds_sample = NoSample

\* wsj0.__init__
Construct ==
    /\ ds_pc = "new"
    /\ ds_id_list' = IdList(ds_data, Len(ds_data))
    /\ ds_drop_num' = DropNum(ds_data, Len(ds_data))
    /\ ds_pc' = "ready"
    /\ UNCHANGED <<ds_mode, ds_one_chunk, ds_seg_len, ds_data, ds_sample>>
    /\ UNCHANGED notDsetVars

\* the sample cut at the window [s, e) of utterance uid
Sample(info, s, e) ==
    LET L    == ds_data[info.uid]
        mix  == Slice(Audio("mix", L), s, e)
        s1   == Slice(Audio("s1", L), s, e)
        s2   == Slice(Audio("s2", L), s, e)
        ilen == Len(mix)
        pad  == ilen < ds_seg_len
    IN  [status |-> "ok", uid |-> info.uid, cid |-> info.cid, ilens |-> ilen,
         mix |-> IF pad THEN pad_audio(mix, ilen) ELSE mix,
         ref |-> <<IF pad THEN pad_audio(s1, ilen) ELSE s1,
                   IF pad THEN pad_audio(s2, ilen) ELSE s2>>,
         s |-> s, e |-> e]

\* wsj0.__getitem__(idx); random.randint(a, b) raises ValueError when b < a
GetItem ==
    /\ ds_pc = "ready"
    /\ \E idx \in 1..Len(ds_id_list) :
         LET info == ds_id_list[idx]
             re   == ds_data[info.uid] - ds_seg_len
         IN  IF ds_one_chunk
             THEN IF re - 1 < 0
                  THEN ds_sample' = ValueError
                  ELSE \E s \in 0..(re - 1) : ds_sample' = Sample(info, s, s + ds_seg_len)
             ELSE ds_sample' = Sample(info, info.s, info.e)
    /\ UNCHANGED <<ds_mode, ds_one_chunk, ds_seg_len, ds_data, ds_pc, ds_id_list, ds_drop_num>>
    /\ UNCHANGED notDsetVars

DsetNext == Construct \/ GetItem

\* no dataset under construction
DsetIdle ==
    /\ ds_mode = "idle"
    /\ ds_one_chunk = FALSE
    /\ ds_seg_len = 0
    /\ ds_data = <<>>
    /\ ds_pc = "idle"
    /\ ds_id_list = <<>>
    /\ ds_drop_num = 0
    /\ ds_sample = NoSample

\* the Saver of Part I at rest
SaverIdle ==
    /\ svariant = "cmvn"
    /\ save_freq = -1
    /\ saver = SaverNew(1, "max")
    /\ disk = <<>>
    /\ spc = "update"
    /\ sidx = 0
    /\ history = <<>>
    /\ resumed_at = -1

\* the loop of Part II at rest
LoopIdle ==
    /\ variant = "cmvn"
    /\ cfg = CHOOSE c \in EpochConfigs : TRUE
    /\ resumed = FALSE
    /\ pc = "done"
    /\ start = 0
    /\ cur = 0
    /\ step = 0
    /\ valid_time = 0
    /\ pre = 0
    /\ d_att = 0
    /\ g_att = 0
    /\ sup_att = 0
    /\ G = 0
    /\ D = 0
    /\ g_opt = NewOptim
    /\ d_opt = NewOptim
    /\ sched = NewSched
    /\ grad_norm = "none"
    /\ stepped = FALSE
    /\ nonfinite = 0
    /\ latest = NoFile
    /\ snap = NoSnap
    /\ prev_ev = "none"
    /\ ev = "INIT"
    /\ force_files = {}

\* a Saver under the saving tail of a trainer, nothing else running
InitSaver == SaverInit /\ LoopIdle /\ EvalIdle /\ PitIdle /\ RampIdle /\ SetupIdle /\ VlossIdle /\ IgenIdle /\ CnormIdle /\ DsetIdle

SpecSaver == InitSaver /\ [][SaverNext]_vars

\* the same, with one interruption and resume of the trainer
SpecSaverResume == InitSaver /\ [][SaverResumeNext]_vars

\* a freshly constructed Trainer
InitLoop == LoopInit /\ SaverIdle /\ EvalIdle /\ PitIdle /\ RampIdle /\ SetupIdle /\ VlossIdle /\ IgenIdle /\ CnormIdle /\ DsetIdle

SpecLoop == InitLoop /\ [][LoopNext]_vars

\* an evaluation of one split
InitEval == EvalInit /\ SaverIdle /\ LoopIdle /\ PitIdle /\ RampIdle /\ SetupIdle /\ VlossIdle /\ IgenIdle /\ CnormIdle /\ DsetIdle

SpecEval == InitEval /\ [][EvalNext]_vars

\* cal_loss on one batch element
InitPit == PitInit /\ SaverIdle /\ LoopIdle /\ EvalIdle /\ RampIdle /\ SetupIdle /\ VlossIdle /\ IgenIdle /\ CnormIdle /\ DsetIdle

SpecPit == InitPit /\ [][PitNext]_vars

\* a lambda scheduler queried by the adversarial updates
InitRamp == RampInit /\ SaverIdle /\ LoopIdle /\ EvalIdle /\ PitIdle /\ SetupIdle /\ VlossIdle /\ IgenIdle /\ CnormIdle /\ DsetIdle

SpecRamp == InitRamp /\ [][RampNext]_vars

\* construction of a Trainer and the start of exec()
InitSetup == SetupInit /\ SaverIdle /\ LoopIdle /\ EvalIdle /\ PitIdle /\ RampIdle /\ VlossIdle /\ IgenIdle /\ CnormIdle /\ DsetIdle

SpecSetup == InitSetup /\ [][SetupNext]_vars

\* valid() computing its validation loss
InitVloss == VlossInit /\ SaverIdle /\ LoopIdle /\ EvalIdle /\ PitIdle /\ RampIdle /\ SetupIdle /\ IgenIdle /\ CnormIdle /\ DsetIdle

SpecVloss == InitVloss /\ [][VlossNext]_vars

\* a generator made by inf_data_gen and its consumer
InitIgen == IgenInit /\ SaverIdle /\ LoopIdle /\ EvalIdle /\ PitIdle /\ RampIdle /\ SetupIdle /\ VlossIdle /\ CnormIdle /\ DsetIdle

SpecIgen == InitIgen /\ [][IgenNext]_vars

\* the same, the generator running whenever it is resumed
SpecIgenFair == InitIgen /\ [][IgenNext]_vars /\ IgenFair

\* exec() of train_cmvn from its first line
InitCnorm == CnormInit /\ SaverIdle /\ LoopIdle /\ EvalIdle /\ PitIdle /\ RampIdle /\ SetupIdle /\ VlossIdle /\ IgenIdle /\ DsetIdle

SpecCnorm == InitCnorm /\ [][CnormNext]_vars

\* a wsj0 about to be constructed
InitDset == DsetInit /\ SaverIdle /\ LoopIdle /\ EvalIdle /\ PitIdle /\ RampIdle /\ SetupIdle /\ VlossIdle /\ IgenIdle /\ CnormIdle

SpecDset == InitDset /\ [][DsetNext]_vars

(***************************************************************************)
(* Claims about the Checkpoint Saver (checked under SpecSaver).             *)
(***************************************************************************)
RankedOf(i) == [name |-> ModelName(history[i].idx), score |-> history[i].score]

IsKept(i) == \E k \in 1..Len(saver.ckpts) : saver.ckpts[k] = RankedOf(i)

\* the order the trainer asks for: the epoch loops keep the highest SI-SNRi,
\* the step loops keep the lowest loss
TrainerPrefers(a, b) == IF svariant \in EpochVariants THEN a > b ELSE a < b

MinOf(a, b) == IF a < b THEN a ELSE b

\* C9: after any sequence of update calls the ranked set holds at most N
\* checkpoints and is exactly the N best scores offered so far (all of them
\* while fewer than N were offered): the highest for the 'max' Savers of the
\* epoch loops, the lowest for the 'min' Savers of the step loops; evicted
\* entries are deleted from disk; N=2, max, scores 0.5, 0.7, 0.3, 0.9 leave
\* exactly {0.7, 0.9}.
C9_RetainedIsTopN ==
    /\ Len(saver.ckpts) = MinOf(saver.max_save_num, Len(history))
    /\ \A k \in 1..Len(saver.ckpts) : \E i \in 1..Len(history) : saver.ckpts[k] = RankedOf(i)
    /\ \A k1, k2 \in 1..Len(saver.ckpts) :
          k1 # k2 => saver.ckpts[k1].name # saver.ckpts[k2].name
    /\ \A i \in 1..Len(history) :
          ~IsKept(i) =>
             \A k \in 1..Len(saver.ckpts) :
                ~TrainerPrefers(history[i].score, saver.ckpts[k].score)
    /\ \A i \in 1..Len(history) :
          (ModelName(history[i].idx) \in DOMAIN disk) <=> IsKept(i)
    /\ ( /\ svariant \in EpochVariants
         /\ saver.max_save_num = 2
         /\ Len(history) = 4
         /\ [i \in 1..4 |-> history[i].score] = <<5, 7, 3, 9>> )
       => {saver.ckpts[k].score : k \in 1..Len(saver.ckpts)} = {7, 9}

\* C9 witness: the N=2, max scenario after its four updates, with 0.5 and 0.3
\* evicted or refused
C9_Witness ==
    /\ svariant = "cmvn"
    /\ saver.max_save_num = 2
    /\ Len(history) = 4
    /\ [i \in 1..4 |-> history[i].score] = <<5, 7, 3, 9>>
    /\ {saver.ckpts[k].score : k \in 1..Len(saver.ckpts)} = {7, 9}
    /\ ModelName(0) \notin DOMAIN disk

\* the saving tail of validation i has passed its force_save(f'{idx}_force.pth')
PastForce(i) == i < Len(history) \/ spc # "force"

\* the saving tail of validation i has passed its force_save('latest.pth')
PastLatest(i) == i < Len(history) \/ spc = "update"

\* C10: force_save always writes whatever the score, never evicts or re-ranks
\* what update keeps, 'latest.pth' is one file holding the last write, and a
\* forced checkpoint is never removed by later updates.
C10_ForceSaveKeeps ==
    /\ \A i \in 1..Len(history) :
          (history[i].forced /\ PastForce(i)) =>
             /\ ForceName(history[i].idx) \in DOMAIN disk
             /\ disk[ForceName(history[i].idx)] =
                   [idx |-> history[i].idx, score |-> history[i].score]
    /\ \A i \in 1..Len(history) :
          (PastLatest(i) /\ \A j \in 1..Len(history) : j > i => ~PastLatest(j)) =>
             /\ LatestName \in DOMAIN disk
             /\ disk[LatestName] = [idx |-> history[i].idx, score |-> history[i].score]
    /\ \A k \in 1..Len(saver.ckpts) :
          /\ saver.ckpts[k].name \in DOMAIN disk
          /\ disk[saver.ckpts[k].name].score = saver.ckpts[k].score
    /\ Len(saver.ckpts) <= saver.max_save_num

\* C10 witness: a forced checkpoint whose score update refused, still on disk
\* after later updates evicted a ranked entry, with 'latest.pth' rewritten
C10_Witness ==
    /\ Len(history) = 4
    /\ spc = "update"
    /\ history[2].forced
    /\ ~IsKept(2)
    /\ ModelName(history[2].idx) \notin DOMAIN disk
    /\ ForceName(history[2].idx) \in DOMAIN disk
    /\ disk[LatestName].idx = history[4].idx
    /\ ~IsKept(1)

\* the retained entries as a set
Entries(sv) == {sv.ckpts[k] : k \in 1..Len(sv.ckpts)}

\* C11: a Saver constructed with resume = True over the directory left by an
\* earlier Saver has the same max_save_num, mode and ranked entries (names
\* and scores, read from disk) as the earlier Saver had, so update decides
\* and retains as if uninterrupted; it is never empty when ranked
\* checkpoints exist on disk.
C11_ResumeRebuildsRanking ==
    [][ (resumed_at = -1 /\ resumed_at' # -1) =>
          /\ saver'.max_save_num = saver.max_save_num
          /\ saver'.keep = saver.keep
          /\ Len(saver'.ckpts) = Len(saver.ckpts)
          /\ Entries(saver') = Entries(saver)
          /\ (RankedNames(disk) # {} => saver'.ckpts # <<>>) ]_vars

\* C11 witness: a resumed Saver that holds an entry written before the
\* interruption next to one it inserted afterwards, having been full
C11_Witness ==
    /\ resumed_at > 0
    /\ spc # "crashed"
    /\ saver.max_save_num = 2
    /\ Len(history) = 4
    /\ \E a, b \in 0..MaxValids :
         /\ a < resumed_at
         /\ b >= resumed_at
         /\ {ModelName(a), ModelName(b)} = {e.name : e \in Entries(saver)}
    /\ \E c \in 0..MaxValids : c < resumed_at /\ ModelName(c) \notin DOMAIN disk

\* C19: after an interruption at any point of an epoch loop followed by a
\* resume, the resumed run goes on from 'latest.pth', every epoch is trained
\* to completion and validated exactly once, and the ranked checkpoints
\* hold at most one entry per epoch.
C19_ResumeEpochOnce ==
    resumed_at # -1 =>
        /\ spc # "crashed"
        /\ \A i, j \in 1..Len(history) : i # j => history[i].idx # history[j].idx
        /\ \A i, j \in 1..Len(saver.ckpts) : i # j => saver.ckpts[i].name # saver.ckpts[j].name

\* the second way C19 fails: the resume succeeded, and an epoch was
\* trained and validated twice
C19_EpochTwice ==
    /\ resumed_at # -1
    /\ spc # "crashed"
    /\ \E i, j \in 1..Len(history) : i # j /\ history[i].idx = history[j].idx

(***************************************************************************)
(* Claims about the training loops (checked under SpecLoop).                *)
(***************************************************************************)
\* a process constructed with resume, set_model() done, exec() not yet begun
JustResumed == resumed /\ ev = "INIT" /\ pc # "crashed"

\* C1: in every optimizer update of the adversarial loops (supervised
\* generator update, discriminator updates, generator updates) a non-finite
\* gradient norm means the optimizer step of that iteration is not executed.
C1_NonFiniteSkipsStep ==
    (variant \in StepVariants /\ grad_norm \in NonFinite) => ~stepped

\* C3: in the epoch loops a run resumed from the 'latest.pth' of valid() has
\* self.step equal to the value it had when that checkpoint was written.
C3_ResumeRestoresStep ==
    (variant \in EpochVariants /\ JustResumed) => step = snap.step

\* C4: in train_dagan a resumed run continues the outer loop from the step
\* after the checkpoint's, with valid_time equal to the validations done.
C4_ResumeContinuesStep ==
    (variant = "dagan" /\ JustResumed) =>
        /\ start = snap.cur + 1
        /\ cur = snap.cur + 1
        /\ valid_time = snap.valid_time

\* C5: every checkpoint of a validation stores the optimizer state with the
\* model state, and a run resumed from it (resume_optim set) has the optimizer
\* state, learning rate and plateau counters the uninterrupted run had when
\* it left that validation.
C5_ResumeRestoresOptim ==
    /\ (variant \in EpochVariants /\ latest.present) =>
          {"optim", "state_dict"} \subseteq latest.keys
    /\ (variant \in EpochVariants /\ JustResumed /\ cfg.resume_optim) =>
          /\ G = snap.G
          /\ g_opt = snap.g_opt
          /\ sched = snap.sched

\* C6: every record a loop writes has all the fields the same loop's resume
\* path reads; in train_uns the record of valid() loads without a
\* missing-field failure.
C6_RecordHasResumeFields ==
    /\ latest.present => ResumeReadKeys(variant, TRUE) \subseteq latest.keys
    /\ (variant = "uns" /\ resumed /\ ev = "INIT" /\ latest.present) => pc # "crashed"

Validations == {"VALIDATE", "VALIDATE_TGT"}

\* C7 as stated: a checkpoint write directly continues a validation pass,
\* every validation pass is directly preceded by the training step of its
\* cycle, and after a CHECKPOINT comes a TRAIN_STEP or DONE.
C7_Original ==
    /\ ev = "CHECKPOINT" => prev_ev \in Validations
    /\ ev \in Validations => prev_ev = "TRAIN_STEP"
    /\ prev_ev = "CHECKPOINT" => ev \in {"TRAIN_STEP", "DONE"}

\* C7 (amended): every loop follows INIT -> (TRAIN_STEP -> [validation ->
\* CHECKPOINT]?)* -> DONE where a checkpoint write directly continues a
\* validation pass of the same cycle and the first validation pass of a cycle
\* directly follows its training step; train_dagan validates the target set
\* between the source-set pass and the CHECKPOINT, train_transnorm validates
\* the unsupervised set (no_save) directly after the CHECKPOINT; otherwise
\* after a CHECKPOINT comes a TRAIN_STEP or DONE.
C7_LoopOrder ==
    /\ ev = "CHECKPOINT" =>
          prev_ev = (IF variant = "dagan" THEN "VALIDATE_TGT" ELSE "VALIDATE")
    /\ ev = "VALIDATE" => prev_ev = "TRAIN_STEP"
    /\ ev = "VALIDATE_TGT" =>
          \/ variant = "dagan" /\ prev_ev = "VALIDATE"
          \/ variant = "transnorm" /\ prev_ev = "CHECKPOINT"
    /\ prev_ev = "CHECKPOINT" =>
          \/ ev \in {"TRAIN_STEP", "DONE"}
          \/ variant = "transnorm" /\ ev = "VALIDATE_TGT"
    /\ (prev_ev = "VALIDATE_TGT" /\ variant = "transnorm") => ev \in {"TRAIN_STEP", "DONE"}
    /\ ev = "TRAIN_STEP" =>
          prev_ev \in {"INIT", "PREPASS", "PRETRAIN_D", "TRAIN_STEP", "CHECKPOINT",
                       "VALIDATE_TGT"}
    /\ prev_ev # "DONE"
    /\ pc = "done" <=> ev = "DONE"

\* C7 witness: train_transnorm in its no-save validation right after a
\* CHECKPOINT of the same epoch
C7_Witness ==
    /\ variant = "transnorm"
    /\ prev_ev = "CHECKPOINT"
    /\ ev = "VALIDATE_TGT"
    /\ latest.present
    /\ latest.epoch = cur - 1

\* an outer step of an adversarial loop is under way or just completed
InOuterStep == variant \in StepVariants /\ ev = "TRAIN_STEP"

OuterStepComplete == InOuterStep /\ pc \in {"loop", "valid"}

Due(s) == s % cfg.valid_step = 0 /\ s # 0

\* the force save is due after epoch e
ForceDue(e) == cfg.save_freq > 0 /\ (e + 1) % cfg.save_freq = 0

\* C20: in the step loops the validation-and-checkpoint cycle is entered
\* after outer step s of [start_step, total_steps) exactly when
\* s % valid_step = 0 and s # 0, a checkpoint is written only for such a step
\* and such a step is left only through its checkpoint; in the epoch loops
\* every trained epoch goes into a saving validation, an epoch is left only
\* after 'latest.pth' recorded it, and f'{epoch}_force.pth' is written in that
\* validation exactly when save_freq > 0 and (epoch + 1) % save_freq = 0.
C20_Cadence ==
    [][resumed' = resumed =>
        /\ (variant \in StepVariants /\ pc = "gen" /\ pc' \notin {"gen", "gen_error"}) =>
              /\ cur >= start /\ cur < cfg.total
              /\ (pc' = "valid") <=> Due(cur)
              /\ pc' # "valid" => pc' = "loop" /\ cur' = cur + 1
        /\ (variant \in StepVariants /\ ev' = "CHECKPOINT" /\ pc = "save") =>
              /\ Due(cur)
              /\ latest'.present /\ latest'.step = cur
              /\ cur' = cur + 1
        /\ (variant \in StepVariants /\ cur' # cur /\ Due(cur)) => pc = "save"
        /\ variant \in StepVariants => force_files' = {}
        /\ (variant \in EpochVariants /\ pc = "loop" /\ pc' \notin {"loop", "done"}) =>
              pc' = "valid" /\ cur' = cur
        /\ (variant \in EpochVariants /\ cur' # cur) =>
              /\ cur' = cur + 1
              /\ latest'.present /\ latest'.epoch = cur
        /\ (variant \in EpochVariants /\ pc = "save" /\ pc' # "save") =>
              /\ ev' = "CHECKPOINT"
              /\ (cur \in force_files') <=> ForceDue(cur)
        /\ force_files' # force_files => pc = "save" /\ force_files' = force_files \cup {cur}
    ]_vars

\* an uninterrupted step loop with valid_step = 2 that has just written the
\* checkpoint of step 2, its first one
C20_Witness ==
    /\ variant \in StepVariants
    /\ ~resumed
    /\ cfg.valid_step = 2
    /\ cfg.start = 0
    /\ ev = "CHECKPOINT"
    /\ cur = 3
    /\ valid_time = 1
    /\ latest.step = 2

\* an epoch loop with save_freq = 2 that wrote '1_force.pth' and no '0_force.pth'
C20_ForceWritten ==
    /\ variant \in EpochVariants
    /\ cfg.save_freq = 2
    /\ cur = 2
    /\ force_files = {1}

\* C21: when an uninterrupted training loop reaches DONE, the last
\* checkpoint written holds the model state the last training step or epoch
\* produced: no optimizer update of the run is left out of 'latest.pth'.
C21_DoneLatestHoldsFinalState ==
    (pc = "done" /\ ~resumed /\ G # 0) =>
        /\ latest.present
        /\ latest.state_dict = G

\* C22: in train_dagan valid() completes for both discriminator formulations
\* ('gan' and 'wgan-gp'), so every validation cycle goes on towards its
\* checkpoint.
C22_DaganValidCompletes ==
    (variant = "dagan" /\ ev = "VALIDATE") => pc = "valid_tgt"

\* C23: in train_uns with Lc_lambda = 0 every generator update iteration
\* completes without error: the optimizer step is attempted and the logged
\* totals are accumulated.
C23_GenWithoutLcCompletes ==
    (variant = "uns" /\ cfg.Lc_lambda = 0) => pc # "gen_error"

\* C26: a validation pass changes neither the model parameters nor the
\* optimizer statistics, and the no_save validation of the epoch loops leaves
\* 'latest.pth', the force saves, the learning rate and the scheduler as
\* they are: in the epoch loops only the saving validation of the training
\* dataset changes them.
C26_ValidationFrame ==
    [][resumed' = resumed =>
        /\ pc \in {"valid", "valid_tgt", "save"} =>
              /\ G' = G
              /\ D' = D
              /\ g_opt'.nsteps = g_opt.nsteps
              /\ d_opt' = d_opt
        /\ (pc = "valid_tgt" /\ variant \in EpochVariants) =>
              /\ latest' = latest
              /\ force_files' = force_files
              /\ sched' = sched
              /\ g_opt' = g_opt
        /\ (variant \in EpochVariants
               /\ (latest' # latest \/ sched' # sched \/ g_opt'.lr # g_opt.lr)) => pc = "save"
    ]_vars

\* train_transnorm after the no_save validation of an epoch: everything is
\* as the saving validation of that epoch left it
C26_Witness ==
    /\ variant = "transnorm"
    /\ ~resumed
    /\ ev = "VALIDATE_TGT"
    /\ pc = "loop"
    /\ cfg.use_scheduler
    /\ latest.present /\ latest.epoch = cur - 1 /\ latest.state_dict = G
    /\ snap.sched = sched /\ snap.g_opt = g_opt /\ snap.G = G
    /\ sched # NewSched

\* C27: in the step loops a discriminator update, pre-training included,
\* changes neither the generator's parameters nor the generator optimizer's
\* state, a generator update (train_gen_once, train_sup_once) changes neither
\* the discriminator's parameters nor its optimizer's state, and no update
\* iteration steps both optimizers.
C27_UpdatesDoNotInterleave ==
    [][(variant \in StepVariants /\ resumed' = resumed) =>
        /\ (pc \in {"dis", "pretrain"} \/ (variant = "uns" /\ pc = "loop")) =>
              G' = G /\ g_opt' = g_opt
        /\ (pc = "gen" \/ (variant = "dagan" /\ pc = "loop")) =>
              D' = D /\ d_opt' = d_opt
        /\ (D' # D \/ d_opt' # d_opt) =>
              /\ pc \in {"dis", "pretrain"} \/ (variant = "uns" /\ pc = "loop")
              /\ D' = D + 1 /\ d_opt'.nsteps = d_opt.nsteps + 1
        /\ (G' # G \/ g_opt'.nsteps # g_opt.nsteps) =>
              /\ pc = "gen" \/ (variant = "dagan" /\ pc = "loop")
              /\ G' = G + 1 /\ g_opt'.nsteps = g_opt.nsteps + 1
        /\ ~(G' # G /\ D' # D)
    ]_vars

\* train_dagan between the discriminator and the generator updates of its
\* first outer step: one supervised generator step, two discriminator steps
C27_Witness ==
    /\ variant = "dagan"
    /\ ~resumed
    /\ cfg.pretrain_d_step = 0
    /\ pc = "gen"
    /\ g_att = 0
    /\ G = 1 /\ g_opt.nsteps = 1
    /\ D = 2 /\ d_opt.nsteps = 2

(***************************************************************************)
(* Claims about the metric aggregation (checked under SpecEval).            *)
(***************************************************************************)
\* C2: when a gender category has zero examples in the evaluated split, the
\* evaluation finishes without a division by zero and leaves that category
\* out of the per-gender means.
C2_EmptyGenderOmitted ==
    (epc # "loop" /\ total_cnt > 0 /\ \E g \in Genders : gender_cnt[g] = 0) =>
        /\ epc = "done"
        /\ \A g \in Genders :
              eresult[g] = (IF gender_cnt[g] = 0 THEN Mean(0, 0)
                            ELSE Mean(gender_SISNRi[g], gender_cnt[g]))

\* the sum of a per-gender table
GenderSum(table) == table["MM"] + table["FF"] + table["MF"]

\* C17: every evaluated example is counted in exactly one gender category:
\* at every point of the loop the per-category counts add up to the total
\* count and the per-category SI-SNRi sums add up to the total SI-SNRi sum;
\* the overall mean reported is therefore the count-weighted mean of the
\* per-category means, and their simple mean when every category holds
\* exactly one example.
C17_GenderPartition ==
    /\ GenderSum(gender_cnt) = total_cnt
    /\ GenderSum(gender_SISNRi) = total_SISNRi
    /\ epc = "done" =>
          /\ \A g \in Genders : eresult[g] = Mean(gender_SISNRi[g], gender_cnt[g])
          /\ etotal.cnt = GenderSum([g \in Genders |-> eresult[g].cnt])
          /\ etotal.sum = GenderSum([g \in Genders |-> eresult[g].sum])
          /\ (\A g \in Genders : eresult[g].cnt = 1) =>
                3 * etotal.sum = etotal.cnt * GenderSum([g \in Genders |-> eresult[g].sum])

\* an evaluation of three examples, one per category, with different values
C17_Witness ==
    /\ epc = "done"
    /\ \A g \in Genders : gender_cnt[g] = 1
    /\ gender_SISNRi["MM"] # gender_SISNRi["FF"]
    /\ etotal = Mean(total_SISNRi, 3)

C12_BestPermutation ==
    /\ p_op \in {"cal", "swap", "pad"} =>
          /\ p_out.perm \in {<<1, 2>>, <<2, 1>>}
          /\ \A a, b \in 1..2 :
                p_out.max_snr >= PairSnr(p_est[a], p_ref[1], p_len)
                                   + PairSnr(p_est[b], p_ref[2], p_len)
                \/ a = b
          /\ p_out.max_snr = PairSnr(p_out.reorder[1], p_ref[1], p_len)
                               + PairSnr(p_out.reorder[2], p_ref[2], p_len)
          /\ p_out.reorder = <<p_est[p_out.perm[1]], p_est[p_out.perm[2]]>>
          /\ p_out.loss = 0 - p_out.max_snr
    /\ p_op = "swap" =>
          /\ p_out.loss = p_first.loss
          /\ p_out.max_snr = p_first.max_snr
          /\ (p_ref = <<S1, S2>> /\ p_est = <<S2, S1>> /\ p_len = TMax) =>
                p_out.reorder = <<S1, S2>>

\* C12 witness: references [s1, s2] with the estimates given as [s2, s1]
\* after the in-order call, the swap detected
C12_Witness ==
    /\ p_op = "swap"
    /\ p_ref = <<S1, S2>>
    /\ p_est = <<S2, S1>>
    /\ p_len = TMax
    /\ p_out.perm = <<2, 1>>
    /\ p_out.reorder = <<S1, S2>>
    /\ p_first.perm = <<1, 2>>

\* C13: for an element of true length L < T_max, loss and max_snr are the
\* same for inputs that agree below L and differ only at positions >= L.
C13_PaddingIgnored ==
    p_op = "pad" =>
        /\ p_out.loss = p_first.loss
        /\ p_out.max_snr = p_first.max_snr
        /\ p_out.perm = p_first.perm

\* C13 witness: an element of length 2 in a batch padded to 4 whose padding
\* was changed in a reference and in an estimate
C13_Witness ==
    /\ p_op = "pad"
    /\ p_len = 2
    /\ TMax = 4
    /\ p_ref[1][3] = 2
    /\ p_est[2][4] = -1
    /\ p_first.max_snr > MinLevel + MinLevel
    /\ CalLoss(p_ref, p_est, TMax).loss # p_out.loss

(***************************************************************************)
(* Claims about the lambda schedulers (checked under SpecRamp).             *)
(***************************************************************************)
\* C14: RampScheduler.value(step) is start_value for step <= start_step,
\* end_value for step >= end_step and the linear interpolation in between;
\* for start_value < end_value it is non-decreasing over all steps and
\* strictly increasing between start_step and end_step; it depends only on
\* its argument: repeated and out-of-order calls return the same result and
\* change no state.
C14_RampValue ==
    r_step >= 0 =>
        /\ r_step <= r_cfg.start_step => r_val = r_cfg.start_value * RampSpan(r_cfg)
        /\ r_step >= r_cfg.end_step => r_val = r_cfg.end_value * RampSpan(r_cfg)
        /\ (r_cfg.start_step < r_step /\ r_step < r_cfg.end_step) =>
              r_val = r_cfg.start_value * RampSpan(r_cfg)
                        + (r_cfg.end_value - r_cfg.start_value) * (r_step - r_cfg.start_step)
        /\ (r_prev.step >= 0 /\ r_cfg.start_value < r_cfg.end_value) =>
              /\ r_prev.step <= r_step => r_prev.val <= r_val
              /\ r_prev.step >= r_step => r_prev.val >= r_val
              /\ ( /\ r_cfg.start_step <= r_prev.step
                   /\ r_prev.step < r_step
                   /\ r_step <= r_cfg.end_step ) => r_prev.val < r_val
        /\ r_prev.step = r_step => r_prev.val = r_val

\* C14 witness: a rising ramp queried strictly inside its interval after a
\* later step had been queried beyond its end
C14_Witness ==
    /\ r_cfg.start_value < r_cfg.end_value
    /\ r_cfg.start_step + 2 <= r_cfg.end_step
    /\ r_cfg.start_step < r_step
    /\ r_step < r_cfg.end_step
    /\ r_prev.step > r_cfg.end_step
    /\ r_prev.val = r_cfg.end_value * RampSpan(r_cfg)
    /\ r_val < r_prev.val
    /\ r_val > r_cfg.start_value * RampSpan(r_cfg)

(***************************************************************************)
(* Claims about Trainer construction (checked under SpecSetup).             *)
(***************************************************************************)
\* C15: every required config key is read during Trainer construction, so a
\* missing key ends the run before the pre-pass and the first training step;
\* no key is read for the first time inside exec(), for every dataset choice.
C15_KeysReadAtSetup ==
    /\ k_abort.kind = "KeyError" => k_abort.phase = "setup"
    /\ k_pc \in {"ready", "prepassed", "training"} =>
          \A key \in k_read : key \in RunSetup(SetupOps(k_variant, k_dset), 1, k_variant,
                                               k_keys, k_optim, {}, {}).read

\* C16: an optimizer type outside {SGD, Adam, ranger} ends the run during
\* setup, before any training step, and the run has then created no save
\* directory, config.yaml, log directory or dashboard.
C16_UnknownOptimNoSideEffects ==
    (k_pc # "new" /\ k_optim \notin {"SGD", "Adam", "ranger"} /\ k_abort.kind # "KeyError") =>
        /\ k_pc = "aborted"
        /\ k_abort.phase = "setup"
        /\ k_made = {}

(***************************************************************************)
(* Claims about the validation loss (checked under SpecVloss).              *)
(***************************************************************************)
\* the sum of the per-batch terms over the first n batches of the validation loader
RECURSIVE SumOver(_, _, _)
SumOver(loader, n, v) == IF n = 0 THEN 0 ELSE SumOver(loader, n - 1, v) + LossTerm(v, loader[n])

\* the number of examples of the validation loader
RECURSIVE Examples(_, _)
Examples(loader, n) == IF n = 0 THEN 0 ELSE Examples(loader, n - 1) + loader[n].B

\* C24: the validation loss is the mean over the validation loader only:
\* the sum of the per-batch losses over the number of validation batches in
\* the step loops, the example-weighted sum over the number of validation
\* examples in the epoch loops, whatever the size of the training loader.
C24_ValidLossIsLoaderMean ==
    vl_out # NoLoss =>
        LET n == Len(vl_loader)
            den == IF vl_who \in EpochVariants THEN Examples(vl_loader, n) ELSE n
        IN  vl_out.sum * den = SumOver(vl_loader, n, vl_who) * vl_out.cnt

(***************************************************************************)
(* Claims about inf_data_gen (checked under SpecIgenFair).                  *)
(***************************************************************************)
\* C25: for every finite loader, one that yields no batch in a pass
\* included, each next() eventually returns a batch.
C25_NextReturns == (ig_pc \in {"iter", "next"}) ~> (ig_pc = "suspended")

\* the rest of C25: a next() that returned gave the batch of the current pass
\* at its position in the loader's order, and an exhausted pass has yielded
\* every batch of the loader exactly once
C25_PassesInOrder ==
    /\ (ig_pc = "suspended" /\ ig_started) => (ig_pos >= 1 /\ ig_ret = ig_order[ig_pos])
    /\ ig_last # NoPass =>
          /\ Len(ig_last) = ig_n
          /\ \A b \in Batches(ig_n) : Cardinality({i \in 1..Len(ig_last) : ig_last[i] = b}) = 1

(***************************************************************************)
(* Claims about the pre-pass of train_cmvn (checked under SpecCnorm).       *)
(***************************************************************************)
\* all frames of the training list, utterance after utterance
RECURSIVE AllFrames(_, _)
AllFrames(list, n) == IF n = 0 THEN <<>> ELSE AllFrames(list, n - 1) \o list[n]

\* the mean of the frames xs as [num, den]
FrameMean(xs) == Quot(FrameSum(xs, Len(xs)), Len(xs))

\* the variance of the frames xs about their mean m, in units of 1 / m.den^2
FrameVar(xs, m) == Quot(SqDevSum(xs, Len(xs), m), Len(xs) * m.den * m.den)

\* C28: in every process of train_cmvn, resumed or not, the pre-pass runs to
\* completion exactly once before the first training step: the mean pass
\* over the whole list, then the variance pass against that global mean,
\* both weighted by the frame counts, then set_mv; afterwards no training
\* step changes the encoder, the decoder or the installed statistics.
C28_PrepassOnceThenFrozen ==
    LET xs == AllFrames(cn_list, Len(cn_list))
    IN  /\ cn_pc = "train" <=> cn_passes = 1
        /\ cn_passes <= 1
        /\ cn_steps > 0 => cn_passes = 1
        /\ cn_passes = 1 =>
              /\ cn_mv.mean = FrameMean(xs)
              /\ cn_mv.var = FrameVar(xs, FrameMean(xs))
        /\ cn_pc \in {"var", "set_mv"} => cn_mean = FrameMean(xs)
        /\ cn_params["encoder"] = 0
        /\ cn_params["decoder"] = 0

\* a resumed run that ran its own pre-pass over two utterances of different
\* lengths and then took two training steps
C28_Witness ==
    /\ cn_resumed
    /\ cn_pc = "train"
    /\ cn_steps = 2
    /\ cn_params["separator"] >= 2
    /\ Len(cn_list) = 2
    /\ Len(cn_list[1]) # Len(cn_list[2])
    /\ cn_mv.var.num > 0

(***************************************************************************)
(* Claims about the wsj0 dataset (checked under SpecDset).                  *)
(***************************************************************************)
\* C29: for every index of the dataset, the utterances of exactly seg_len
\* samples included, __getitem__ succeeds; its window lies inside the
\* utterance, mix and both references have seg_len samples cut from the same
\* window, 1 <= ilens <= seg_len is the unpadded length, and every position
\* from ilens on is zero.
C29_GetItemSample ==
    ds_sample # NoSample =>
        /\ ds_sample.status = "ok"
        /\ LET L == ds_data[ds_sample.uid]
               n == ds_sample.ilens
           IN  /\ 0 <= ds_sample.s /\ ds_sample.s < ds_sample.e /\ ds_sample.e <= L
               /\ n = ds_sample.e - ds_sample.s
               /\ 1 <= n /\ n <= ds_seg_len
               /\ Len(ds_sample.mix) = ds_seg_len
               /\ Len(ds_sample.ref) = 2
               /\ \A r \in 1..2 : Len(ds_sample.ref[r]) = ds_seg_len
               /\ \A k \in 1..ds_seg_len :
                    IF k <= n
                    THEN /\ ds_sample.mix[k] = SpkOffset("mix") + ds_sample.s + k
                         /\ ds_sample.ref[1][k] = SpkOffset("s1") + ds_sample.s + k
                         /\ ds_sample.ref[2][k] = SpkOffset("s2") + ds_sample.s + k
                    ELSE /\ ds_sample.mix[k] = 0
                         /\ ds_sample.ref[1][k] = 0
                         /\ ds_sample.ref[2][k] = 0

\* the entries of id_list that belong to utterance uid, in order
ChunksOf(uid) == SelectSeq(ds_id_list, LAMBDA info : info.uid = uid)

\* ceil(a / b) for b > 0
Ceil(a, b) == CHOOSE n \in 0..a : n * b >= a /\ (n - 1) * b < a

\* C30: where utterances are chunked (cv, tt, and tr without one_chunk for
\* utterances of at least seg_len), an utterance has exactly
\* ceil(utt_len / seg_len) chunks [i * seg_len, min((i + 1) * seg_len,
\* utt_len)) with ids (uid, i), contiguous, disjoint and covering
\* [0, utt_len); in tr an utterance shorter than seg_len has no chunk and is
\* counted in drop_num.
C30_Chunking ==
    ds_pc = "ready" =>
        /\ \A uid \in 1..Len(ds_data) :
             LET L  == ds_data[uid]
                 cs == ChunksOf(uid)
             IN  /\ (ds_mode # "tr" \/ (~ds_one_chunk /\ L >= ds_seg_len)) =>
                       /\ Len(cs) = Ceil(L, ds_seg_len)
                       /\ \A j \in 1..Len(cs) :
                            /\ cs[j].cid = <<uid, j - 1>>
                            /\ cs[j].s = (j - 1) * ds_seg_len
                            /\ cs[j].e = MinOf(j * ds_seg_len, L)
                            /\ cs[j].s < cs[j].e
                            /\ j > 1 => cs[j].s = cs[j - 1].e
                       /\ cs[1].s = 0
                       /\ cs[Len(cs)].e = L
                 /\ (ds_mode = "tr" /\ L < ds_seg_len) => cs = <<>>
        /\ ds_mode = "tr" =>
             ds_drop_num = Cardinality({uid \in 1..Len(ds_data) : ds_data[uid] < ds_seg_len})
        /\ ds_mode # "tr" => ds_drop_num = 0

\* a training set without one_chunk that chunked an utterance with a short
\* last chunk and dropped another
C30_Witness ==
    /\ ds_pc = "ready"
    /\ ds_mode = "tr"
    /\ ~ds_one_chunk
    /\ ds_drop_num = 1
    /\ \E uid \in 1..Len(ds_data) :
         /\ Len(ChunksOf(uid)) = 2
         /\ ds_data[uid] % ds_seg_len > 0

====
